---- MODULE Spec2Model ----
(***************************************************************************)
(* Extraction engine of the incident correlator:                           *)
(*   - search_teccm_in_window   (candidate discovery, three JQL queries)   *)
(*   - extract_ticket / extract_ticket_with_retry (one candidate fetch)    *)
(*   - extract_tickets_parallel (the thread pool and its progress counter) *)
(*   - extract_inc_with_teccms  (incident fetch, discovery, pool, report)  *)
(*   - run_extraction_job       (the background job and the job store)     *)
(* Source: src/backend/app/services/extractor.py,                          *)
(*         src/backend/app/jobs/extraction.py, src/backend/app/db/storage.py*)
(***************************************************************************)
EXTENDS Integers, Sequences, FiniteSets, TLC

\* ------------------------------------------------------------------ bounds
\* Candidate keys known to the tracker: TECCM-1 .. TECCM-NumKeys.
NumKeys == 2
\* Largest num_threads a direct caller of extract_inc_with_teccms passes.
MaxThreads == 2
\* Largest number of live intervals of a change handed to the scorer.
MaxIntervals == 1
\* Largest number of bracketed intervals in the comments of one ticket.
MaxBrackets == 1
\* Last reading of the clock, in half seconds.
MaxClock == 2

\* --------------------------------------------------------- program constants
DEFAULT_THREADS == 8
MAX_RETRIES == 3
RETRY_DELAY_BASE == 2

Keys == 1..NumKeys
\* The incident key (INC-...) is key 0; candidate keys are 1..NumKeys.
INC == 0

Min(a, b) == IF a < b THEN a ELSE b
Max(a, b) == IF a > b THEN a ELSE b

RECURSIVE Pow2(_)
Pow2(n) == IF n = 0 THEN 1 ELSE 2 * Pow2(n - 1)

\* All duplicate-free sequences enumerating the set S.
Orderings(S) ==
    { s \in [1..Cardinality(S) -> S] : \A i, j \in DOMAIN s : i # j => s[i] # s[j] }

\* The keys of a list, as a set.
Range(s) == { s[i] : i \in DOMAIN s }

VARIABLES
    \* ---- the tracker (environment)
    tracker,          \* per candidate key: how its issue() calls answer
    issueCalls,       \* per candidate key: number of issue() calls made so far
    searchCalls,      \* number of search_teccm_in_window calls (each sends the window query)
    connectCalls,     \* number of connect_jira calls
    \* ---- the request
    search_options,   \* window_before, window_after, include_external_maintenance
    \* ---- extract_inc_with_teccms
    pc,               \* position of the call
    num_threads,      \* argument num_threads
    inc_data,         \* the normalized incident, or None
    teccm_keys,       \* list returned by search_teccm_in_window
    total,            \* 1 + len(teccm_keys)
    cbLog,            \* the (current, total) pairs handed to progress_callback
    \* ---- extract_tickets_parallel
    tstate,           \* per submitted task: queued / running / finished / collected
    attempt,          \* per task: loop variable of extract_ticket_with_retry
    slept,            \* per task: seconds slept in retry back-off
    tresult,          \* per task: value the future holds
    done,             \* progress_counter['done']
    errors,           \* progress_counter['errors']
    results,          \* list returned by extract_tickets_parallel
    \* ---- cancellation request (JobStatus.CANCELLED is declared; nothing reads it)
    cancel_requested,
    \* ---- search_teccm_in_window called on its own
    s_opts, s_resp, s_out,
    \* ---- run_extraction_job and the job store
    jobPc,            \* position of the job coroutine ("nojob": no job runs)
    active_jobs,      \* _active_jobs, per job id
    db_jobs,          \* table jobs, per job id
    db_extractions,   \* table extractions, per job id
    db_rankings,      \* table rankings, per job id: the rows in insertion order
    \* ---- the scorer called on its own: arguments and return value
    sc_in, sc_out,
    \* ---- the normalizer called on its own: the tracker's fields and the ticket
    nz_in, nz_out,
    nz_again,         \* the ticket of a second call on the same fields
    utcnow,           \* the clock datetime.utcnow() reads, in half seconds
    hashseed,         \* the seed of str hashes of the running Python process
    \* ---- the HTTP API beside the job, and a second job
    db_config,        \* table config: the stored weights, penalties, bonuses, thresholds
    api_out,          \* the response of the last API call
    deleted,          \* the job ids for which delete_job returned success
    otherPc           \* position of the coroutine of the job OTHER_JOB

engineVars == <<pc, num_threads, inc_data, teccm_keys, total, cbLog>>
poolVars   == <<tstate, attempt, slept, tresult, done, errors, results>>
envVars    == <<tracker, issueCalls, searchCalls, connectCalls>>
reqVars    == <<search_options>>
cancelVars == <<cancel_requested>>
searchVars == <<s_opts, s_resp, s_out>>
jobVars    == <<jobPc, active_jobs, db_jobs, db_extractions, db_rankings>>
nzVars     == <<nz_in, nz_out, nz_again, utcnow, hashseed>>
apiVars    == <<db_config, api_out, deleted, otherPc>>
pureVars   == <<sc_in, sc_out, nzVars, apiVars>>
vars == <<envVars, reqVars, engineVars, poolVars, cancelVars, searchVars, jobVars, pureVars>>


\* ------------------------------------------------------------- the tracker
\* Issue-type names the tracker uses, and the substring tests of extract_ticket.
IncidentTypeNames == {"Incident"}
CandidateTypeNames == {"Standard Change", "External Maintenance"}
ContainsIncident(name) == name \in {"Incident"}
ContainsChange(name) == name \in {"Standard Change"}
Upper(name) ==
    CASE name = "External Maintenance" -> "EXTERNAL MAINTENANCE"
      [] name = "Standard Change" -> "STANDARD CHANGE"
      [] name = "Incident" -> "INCIDENT"
      [] OTHER -> name

\* Error texts the tracker answers with: a rate limit (HTTP 429) or not found.
ErrorKinds == {"429", "404"}
IsRateLimit(err) == err = "429"

\* How a key answers: its first `fails` issue() calls raise `kind`, later calls
\* return the raw issue.
FailCounts == {0, 1, MAX_RETRIES}
Script(f, e, ty) == [fails |-> f, kind |-> e, issuetype |-> ty]
Scripts(types) ==
    { Script(0, "none", ty) : ty \in types }
    \cup { Script(f, e, ty) : f \in FailCounts \ {0}, e \in ErrorKinds, ty \in types }

\* jira.issue(key): the n-th call for that key.
RawIssue(k, ty) == [ok |-> TRUE, key |-> k, issuetype |-> ty, err |-> "none"]
RawError(k, e) == [ok |-> FALSE, key |-> k, issuetype |-> "none", err |-> e]
issue(k, n) ==
    IF n <= tracker[k].fails THEN RawError(k, tracker[k].kind)
    ELSE RawIssue(k, tracker[k].issuetype)

\* ---------------------------------------------------------- the normalizer
None == [issue_key |-> -1, ticket_type |-> "None"]

ticket_type_of(name) ==
    IF ContainsIncident(name) THEN "INCIDENT"
    ELSE IF ContainsChange(name) THEN "CHANGE"
    ELSE Upper(name)

\* extract_ticket: every exception of the fetch or the normalization is caught
\* inside and turned into the return value None; nothing is raised to the caller.
Returned(v) == [raised |-> FALSE, err |-> "none", value |-> v]
Raised(e) == [raised |-> TRUE, err |-> e, value |-> None]

\* Variant: the error of jira.issue reaches the caller instead of being caught.
extract_ticket_propagating(resp) ==
    IF resp.ok
    THEN Returned([issue_key |-> resp.key, ticket_type |-> ticket_type_of(resp.issuetype)])
    ELSE Raised(resp.err)

extract_ticket(resp) ==
    IF resp.ok
    THEN Returned([issue_key |-> resp.key, ticket_type |-> ticket_type_of(resp.issuetype)])
    ELSE Returned(None)

\* ------------------------------------------------------------ time windows
\* A window string is the sequence of its characters.
DigitChars == <<"0", "1", "2", "3", "4", "5", "6", "7", "8", "9">>
IsDigit(c) == \E i \in DOMAIN DigitChars : DigitChars[i] = c
DigitValue(c) == (CHOOSE i \in DOMAIN DigitChars : DigitChars[i] = c) - 1

\* str.lower() on the characters a window string is made of here.
lower(c) == CASE c = "H" -> "h" [] c = "D" -> "d" [] c = "M" -> "m" [] OTHER -> c
Lowered(w) == [i \in DOMAIN w |-> lower(w[i])]

\* int() of a run of digits.
RECURSIVE IntOf(_)
IntOf(ds) == IF ds = <<>> THEN 0 ELSE 10 * IntOf(SubSeq(ds, 1, Len(ds) - 1)) + DigitValue(ds[Len(ds)])

UnitMinutes(u) == CASE u = "h" -> 60 [] u = "d" -> 1440 [] u = "m" -> 1

\* re.match(r'^(\d+)([hdm])$', s): one or more digits, then one unit letter;
\* '$' also matches just before a newline that ends the string.
MatchesWindowPattern(s) ==
    LET body == IF s # <<>> /\ s[Len(s)] = "\n" THEN SubSeq(s, 1, Len(s) - 1) ELSE s
    IN  /\ Len(body) >= 2
        /\ body[Len(body)] \in {"h", "d", "m"}
        /\ \A i \in 1..(Len(body) - 1) : IsDigit(body[i])

\* parse_window: the timedelta, in minutes, or ValueError.
parse_window(window_str) ==
    LET s == Lowered(window_str)
        body == IF s # <<>> /\ s[Len(s)] = "\n" THEN SubSeq(s, 1, Len(s) - 1) ELSE s
    IN  IF MatchesWindowPattern(s)
        THEN [raised |-> FALSE,
              minutes |-> IntOf(SubSeq(body, 1, Len(body) - 1)) * UnitMinutes(body[Len(body)])]
        ELSE [raised |-> TRUE, minutes |-> -1]

\* Window strings of the requests: "48h", "2d", "30m", "48H", "48h\n", and the
\* strings "48", "h", "", "4xh", "48 h".
WindowSamples ==
    { <<"4", "8", "h">>, <<"2", "d">>, <<"3", "0", "m">>, <<"4", "8", "H">>,
      <<"4", "8", "h", "\n">>,
      <<"4", "8">>, <<"h">>, <<>>, <<"4", "x", "h">>, <<"4", "8", " ", "h">> }

\* The request body: SearchOptions of models.py as the router copies it into
\* the search_options dict (a request without search_options runs with
\* window_before = window, window_after = "2h" and the flag absent).
\* window_after is the default or a text without a unit.
Requests ==
    [window_before : WindowSamples, window_after : { <<"2", "h">>, <<"4", "8">> },
     include_external_maintenance : BOOLEAN]
DefaultRequest ==
    [window_before |-> <<"4", "8", "h">>, window_after |-> <<"2", "h">>,
     include_external_maintenance |-> FALSE]

\* ------------------------------------------------------ candidate discovery
Queries == {"window", "active", "no_end"}
Answer(K) == [ok |-> TRUE, keys |-> K]
Failure == [ok |-> FALSE, keys |-> {}]
QueryAnswers == { Answer(K) : K \in SUBSET Keys } \cup { Failure }
SearchResponses == [Queries -> QueryAnswers]
SearchOptions == [include_active : BOOLEAN, include_no_end : BOOLEAN]

\* search_teccm_in_window: the three searches run in one try block; the first
\* search that raises ends the function with the keys gathered so far.
\* keys: all_teccm_keys at the return; issued: the searches sent, in order.
\* Variant: all three searches are sent whatever the options say.
search_ignoring_options(resp, opts) ==
    IF \E q \in Queries : ~resp[q].ok
    THEN [keys |-> {}, issued |-> <<"window">>]
    ELSE [keys |-> UNION { resp[q].keys : q \in Queries },
          issued |-> <<"window", "active", "no_end">>]

search_teccm_in_window(resp, opts) ==
    IF ~resp["window"].ok
    THEN [keys |-> {}, issued |-> <<"window">>]
    ELSE
      LET k1 == resp["window"].keys
          i1 == <<"window">>
      IN  IF opts.include_active /\ ~resp["active"].ok
          THEN [keys |-> k1, issued |-> Append(i1, "active")]
          ELSE
            LET k2 == IF opts.include_active THEN k1 \cup resp["active"].keys ELSE k1
                i2 == IF opts.include_active THEN Append(i1, "active") ELSE i1
            IN  IF opts.include_no_end /\ ~resp["no_end"].ok
                THEN [keys |-> k2, issued |-> Append(i2, "no_end")]
                ELSE
                  LET k3 == IF opts.include_no_end THEN k2 \cup resp["no_end"].keys ELSE k2
                      i3 == IF opts.include_no_end THEN Append(i2, "no_end") ELSE i2
                  IN  [keys |-> k3, issued |-> i3]

\* A list built by concatenation instead of a set: a key the window search and
\* the active-at search both find is listed twice.
key_lists_without_set(resp, opts) ==
    LET out == search_teccm_in_window(resp, opts)
        again == IF resp["window"].ok /\ opts.include_active /\ resp["active"].ok
                 THEN resp["window"].keys \cap resp["active"].keys
                 ELSE {}
    IN  { s \o t : s \in Orderings(out.keys), t \in Orderings(again) }

\* list(all_teccm_keys): the set in some order, each key once.
key_lists(resp, opts) == Orderings(search_teccm_in_window(resp, opts).keys)

\* Every list the discovery can return, over all tracker answers and options.
AllKeyLists ==
    UNION { key_lists(resp, opts) : resp \in SearchResponses, opts \in SearchOptions }

\* ------------------------------------------------ extract_ticket_with_retry
\* One pass of the loop `for attempt in range(MAX_RETRIES)`, given the outcome r
\* of extract_ticket and the loop variable a.
\*   returns: the function returns after this pass; value: what it returns;
\*   doneInc / errInc: what it adds to progress_counter under the lock;
\*   wait: seconds of time.sleep before the next pass.
\* Variant: the counter advances only for a fetched ticket.
extract_ticket_with_retry_pass_counting_tickets(a, r) ==
    IF ~r.raised
    THEN [returns |-> TRUE, value |-> r.value,
          doneInc |-> IF r.value = None THEN 0 ELSE 1, errInc |-> 0, wait |-> 0]
    ELSE [returns |-> TRUE, value |-> None, doneInc |-> 1, errInc |-> 1, wait |-> 0]

extract_ticket_with_retry_pass(a, r) ==
    IF ~r.raised
    THEN [returns |-> TRUE, value |-> r.value, doneInc |-> 1, errInc |-> 0, wait |-> 0]
    ELSE IF IsRateLimit(r.err)
    THEN [returns |-> (a + 1 >= MAX_RETRIES), value |-> None, doneInc |-> 0, errInc |-> 0,
          wait |-> RETRY_DELAY_BASE * Pow2(a)]
    ELSE IF a < MAX_RETRIES - 1
    THEN [returns |-> FALSE, value |-> None, doneInc |-> 0, errInc |-> 0,
          wait |-> RETRY_DELAY_BASE * (a + 1)]
    ELSE [returns |-> TRUE, value |-> None, doneInc |-> 1, errInc |-> 1, wait |-> 0]

\* ------------------------------------------------- extract_inc_with_teccms
\* total = 1 + len(teccm_keys)
\* Variant: the incident fetch is not counted.
total_of_without_incident(keys) == Len(keys)
total_of(keys) == 1 + Len(keys)
\* actual_threads = min(num_threads, len(teccm_keys))
\* Variant: max in place of min.
actual_threads_max == Max(num_threads, Len(teccm_keys))
actual_threads == Min(num_threads, Len(teccm_keys))
\* adjusted_callback: progress_callback(1 + current, total)
adjusted_callback(current) == <<1 + current, total>>

Tasks == DOMAIN teccm_keys
InFlight == { i \in Tasks : tstate[i] = "running" }
\* The tickets extract_inc_with_teccms returns: [inc_data] + teccm_results.
tickets == <<inc_data>> \o results

\* ------------------------------------------------------------ the job store
\* Job ids: JOB is the job whose coroutine runs, OTHER_JOB another row of the store.
JOB == "job-A"
OTHER_JOB == "job-B"
JobIds == {JOB, OTHER_JOB}

\* An optional argument or a nullable column: <<>> is None / NULL.
Nothing == <<>>
Some(x) == <<x>>

NoRow == [present |-> FALSE, status |-> "none", progress |-> 0,
          total_teccms |-> Nothing, error |-> Nothing, completed_at |-> FALSE]
\* create_job: INSERT ... status = pending
PendingRow == [NoRow EXCEPT !.present = TRUE, !.status = "pending"]
NoEntry == [present |-> FALSE, progress |-> 0, total |-> 0, status |-> "none",
            error |-> Nothing]
NoExtraction == [present |-> FALSE, tickets |-> <<>>]

\* Database.update_job_status: UPDATE jobs SET status = ?, [progress = ?,]
\* [total_teccms = ?,] [error = ?,] [completed_at = ?] WHERE job_id = ?
\* Variant: the error column is never written.
update_job_status_dropping_error(db, j, status, progress, total_teccms, error) ==
    IF ~db[j].present THEN db
    ELSE [db EXCEPT ![j] =
            [@ EXCEPT !.status = status,
                      !.progress = IF progress # Nothing THEN progress[1] ELSE @,
                      !.total_teccms = IF total_teccms # Nothing THEN total_teccms ELSE @,
                      !.completed_at = IF status \in {"completed", "failed"} THEN TRUE ELSE @]]

\* Variant: the UPDATE has no WHERE clause, every row is written.
update_job_status_every_row(db, j, status, progress, total_teccms, error) ==
    [k \in DOMAIN db |->
        IF ~db[k].present THEN db[k]
        ELSE [db[k] EXCEPT !.status = status,
                           !.progress = IF progress # Nothing THEN progress[1] ELSE @,
                           !.total_teccms = IF total_teccms # Nothing THEN total_teccms ELSE @,
                           !.error = IF error # Nothing THEN error ELSE @,
                           !.completed_at = IF status \in {"completed", "failed"} THEN TRUE ELSE @]]

update_job_status(db, j, status, progress, total_teccms, error) ==
    IF ~db[j].present THEN db
    ELSE [db EXCEPT ![j] =
            [@ EXCEPT !.status = status,
                      !.progress = IF progress # Nothing THEN progress[1] ELSE @,
                      !.total_teccms = IF total_teccms # Nothing THEN total_teccms ELSE @,
                      !.error = IF error # Nothing THEN error ELSE @,
                      !.completed_at = IF status \in {"completed", "failed"} THEN TRUE ELSE @]]

\* Database.save_extraction: INSERT OR REPLACE INTO extractions
\* Variant: nothing is written.
save_extraction_nowhere(db, j, data) == db
save_extraction(db, j, data) == [db EXCEPT ![j] = [present |-> TRUE, tickets |-> data]]

\* Database.save_ranking: INSERT INTO rankings (job_id, weights, data, created_at)
\* Variant: INSERT OR REPLACE, the job's earlier rows are lost.
save_ranking_replacing(db, j, weights, data) ==
    [db EXCEPT ![j] = <<[weights |-> weights, data |-> data]>>]
save_ranking(db, j, weights, data) ==
    [db EXCEPT ![j] = Append(@, [weights |-> weights, data |-> data])]

\* The "ranking" lists of the stored rows of a job (as sets of keys).
RankingsOf(rows) == [i \in DOMAIN rows |-> rows[i].data.ranking]

\* Weights(): the defaults of the model class (models.py), the values of
\* DEFAULT_WEIGHTS of the scorer.
DefaultWeightsModel == [num |-> <<35, 30, 20, 15>>, den |-> 100]

\* calculate_ranking(extraction_data, weights, thresholds, penalties, bonuses):
\* an argument left out is None and the DEFAULT_* table is taken. It raises
\* ZeroDivisionError when the weights add up to 0 (zero_total), else ValueError
\* when the tickets hold no INCIDENT or no CHANGE, and ranks the CHANGE tickets
\* otherwise (min_score defaults to 0, so none is left out). The result names
\* the tables applied under "analysis".
TicketsOfType(ts, ty) == { i \in DOMAIN ts : ts[i].ticket_type = ty }
TableOr(arg) == IF arg = Nothing THEN "default" ELSE arg[1]
calculate_ranking(ts, zero_total, thresholds, penalties, bonuses) ==
    LET applied == [thresholds |-> TableOr(thresholds), penalties |-> TableOr(penalties),
                    bonuses |-> TableOr(bonuses)]
        raise(err) == [raised |-> TRUE, err |-> err,
                       data |-> [ranking |-> {}, analysis |-> applied]]
    IN  IF zero_total THEN raise("float division by zero")
        ELSE IF TicketsOfType(ts, "INCIDENT") = {}
        THEN raise("No incidents found in extraction data")
        ELSE IF TicketsOfType(ts, "CHANGE") = {}
        THEN raise("No TECCMs found in extraction data")
        ELSE [raised |-> FALSE, err |-> "none",
              data |-> [ranking |-> { ts[i].issue_key : i \in TicketsOfType(ts, "CHANGE") },
                        analysis |-> applied]]

\* progress_callback of run_extraction_job: _active_jobs[job_id].update(...) and
\* db.update_job_status(job_id, RUNNING, progress=int(current/total*100),
\* total_teccms=total - 1)
job_progress_callback(pair) ==
    LET current == pair[1]
        tot == pair[2]
        progress_pct == IF tot > 0 THEN (current * 100) \div tot ELSE 0
    IN  /\ active_jobs' = [active_jobs EXCEPT ![JOB] =
                             [@ EXCEPT !.progress = current, !.total = tot,
                                       !.status = "extracting"]]
        /\ db_jobs' = update_job_status(db_jobs, JOB, "running", Some(progress_pct),
                                        Some(tot - 1), Nothing)
        /\ UNCHANGED <<jobPc, db_extractions, db_rankings>>

\* progress_callback(current, total): the caller's callback; under a job it is
\* the callback run_extraction_job passes in.
progress_callback(pair) ==
    /\ cbLog' = Append(cbLog, pair)
    /\ IF jobPc = "nojob" THEN UNCHANGED jobVars ELSE job_progress_callback(pair)

\* options = SearchOptions(window_before=..., window_after=..., ...): its
\* __init__ calls parse_window on both strings; a ValueError leaves the call.
BuildOptions ==
    /\ pc = "options"
    /\ pc' = IF parse_window(search_options.window_before).raised
                \/ parse_window(search_options.window_after).raised
             THEN "raised"
             ELSE "fetch_inc"
    /\ UNCHANGED <<envVars, reqVars, pureVars, num_threads, inc_data, teccm_keys, total, cbLog,
                   poolVars, cancelVars, searchVars, jobVars>>

\* `if not inc_data`: the incident could not be extracted.
\* Variant: only an exception of extract_ticket counts.
incident_missing_only_on_raise(r) == r.raised
incident_missing(r) == r.raised \/ r.value = None

\* inc_data = extract_ticket(jira, inc_key); if not inc_data: raise ValueError
FetchIncident ==
    /\ pc = "fetch_inc"
    /\ LET r == extract_ticket(issue(INC, issueCalls[INC] + 1))
       IN  /\ issueCalls' = [issueCalls EXCEPT ![INC] = @ + 1]
           /\ IF incident_missing(r)
              THEN pc' = "raised" /\ inc_data' = inc_data
              ELSE pc' = "search" /\ inc_data' = r.value
    /\ UNCHANGED <<tracker, searchCalls, connectCalls, num_threads, teccm_keys,
                   total, cbLog, poolVars,
                   cancelVars, reqVars, pureVars, searchVars, jobVars>>

\* teccm_keys = search_teccm_in_window(...); total = 1 + len(teccm_keys);
\* progress_callback(1, total)
SearchCandidates ==
    /\ pc = "search"
    /\ \E lst \in AllKeyLists :
         /\ teccm_keys' = lst
         /\ total' = total_of(lst)
         /\ progress_callback(<<1, total_of(lst)>>)
         /\ pc' = IF lst # <<>> THEN "submit" ELSE "final"
    /\ searchCalls' = searchCalls + 1
    /\ UNCHANGED <<tracker, issueCalls, connectCalls, num_threads, inc_data, poolVars, cancelVars, reqVars, pureVars, searchVars>>

\* extract_tickets_parallel: the counter is created and every key is submitted.
SubmitAll ==
    /\ pc = "submit"
    /\ tstate' = [i \in Tasks |-> "queued"]
    /\ attempt' = [i \in Tasks |-> 0]
    /\ slept' = [i \in Tasks |-> 0]
    /\ tresult' = [i \in Tasks |-> None]
    /\ done' = 0
    /\ errors' = 0
    /\ results' = <<>>
    /\ pc' = "pool"
    /\ UNCHANGED <<envVars, num_threads, inc_data, teccm_keys, total, cbLog,
                   cancelVars, reqVars, pureVars, searchVars, jobVars>>

\* A free worker of the executor takes the oldest queued task.
StartFetch(i) ==
    /\ pc = "pool"
    /\ tstate[i] = "queued"
    /\ \A j \in Tasks : j < i => tstate[j] # "queued"
    /\ Cardinality(InFlight) < actual_threads
    /\ tstate' = [tstate EXCEPT ![i] = "running"]
    /\ UNCHANGED <<envVars, engineVars, attempt, slept, tresult, done, errors,
                   results, cancelVars, reqVars, pureVars, searchVars, jobVars>>

\* One pass of the retry loop of extract_ticket_with_retry for task i.
Attempt(i) ==
    /\ pc = "pool"
    /\ tstate[i] = "running"
    /\ LET k == teccm_keys[i]
           r == extract_ticket(issue(k, issueCalls[k] + 1))
           p == extract_ticket_with_retry_pass(attempt[i], r)
       IN  /\ issueCalls' = [issueCalls EXCEPT ![k] = @ + 1]
           /\ done' = done + p.doneInc
           /\ errors' = errors + p.errInc
           /\ slept' = [slept EXCEPT ![i] = @ + p.wait]
           /\ IF p.returns
              THEN /\ tstate' = [tstate EXCEPT ![i] = "finished"]
                   /\ tresult' = [tresult EXCEPT ![i] = p.value]
                   /\ attempt' = attempt
              ELSE /\ attempt' = [attempt EXCEPT ![i] = @ + 1]
                   /\ UNCHANGED <<tstate, tresult>>
    /\ UNCHANGED <<tracker, searchCalls, connectCalls, engineVars, results, cancelVars, reqVars, pureVars, searchVars, jobVars>>

\* The as_completed loop takes a finished future: its result is appended when
\* it is a ticket, and the callback gets the counter read under the lock.
Collect(i) ==
    /\ pc = "pool"
    /\ tstate[i] = "finished"
    /\ results' = IF tresult[i] # None THEN Append(results, tresult[i]) ELSE results
    /\ progress_callback(adjusted_callback(done))
    /\ tstate' = [tstate EXCEPT ![i] = "collected"]
    /\ UNCHANGED <<envVars, pc, num_threads, inc_data, teccm_keys, total, attempt,
                   slept, tresult, done, errors, cancelVars, reqVars, pureVars, searchVars>>

\* The executor's with-block ends once every future was collected.
PoolExit ==
    /\ pc = "pool"
    /\ \A i \in Tasks : tstate[i] = "collected"
    /\ pc' = "final"
    /\ UNCHANGED <<envVars, num_threads, inc_data, teccm_keys, total, cbLog,
                   poolVars, cancelVars, reqVars, pureVars, searchVars, jobVars>>

\* progress_callback(total, total); return {extraction_info, tickets}
FinalProgress ==
    /\ pc = "final"
    /\ progress_callback(<<total, total>>)
    /\ pc' = "returned"
    /\ UNCHANGED <<envVars, num_threads, inc_data, teccm_keys, total, poolVars,
                   cancelVars, reqVars, pureVars, searchVars>>

\* A cancellation is requested while the call runs. No statement of the engine
\* reads the request.
RequestCancel ==
    /\ pc \in {"options", "fetch_inc", "search", "submit", "pool", "final"}
    /\ ~cancel_requested
    /\ cancel_requested' = TRUE
    /\ UNCHANGED <<envVars, reqVars, pureVars, engineVars, poolVars, searchVars, jobVars>>

\* ------------------------------------------------------------ specification
IncScripts == { s \in Scripts(IncidentTypeNames) : s.fails <= 1 }
Trackers(types) ==
    { t \in [Keys \cup {INC} -> Scripts(types) \cup IncScripts] :
        /\ t[INC] \in IncScripts
        /\ \A k \in Keys : t[k] \in Scripts(types) }

NoSearch == [include_active |-> FALSE, include_no_end |-> FALSE]
NoResponse == [q \in Queries |-> Failure]
NoOutput == [keys |-> {}, issued |-> <<>>]

InitIdle ==
    /\ issueCalls = [k \in Keys \cup {INC} |-> 0]
    /\ searchCalls = 0
    /\ connectCalls = 0
    /\ inc_data = None
    /\ teccm_keys = <<>>
    /\ total = 0
    /\ cbLog = <<>>
    /\ tstate = <<>>
    /\ attempt = <<>>
    /\ slept = <<>>
    /\ tresult = <<>>
    /\ done = 0
    /\ errors = 0
    /\ results = <<>>
    /\ cancel_requested = FALSE

\* Neither the scorer nor the normalizer is called on its own.
NoCall == <<>>
\* The config table is empty, no API call was made, no second job runs.
NoTables == [thresholds |-> "none", penalties |-> "none", bonuses |-> "none"]
NoApiCall == [op |-> "none", status |-> 0, detail |-> "none", computed |-> FALSE,
              applied |-> NoTables]
EmptyConfig == [weights |-> Nothing, thresholds |-> Nothing, penalties |-> Nothing,
                bonuses |-> Nothing]
InitNoApiCall ==
    /\ db_config = EmptyConfig
    /\ api_out = NoApiCall
    /\ deleted = {}
    /\ otherPc = "nojob"

InitNoTicketCall ==
    /\ nz_in = NoCall /\ nz_out = NoCall /\ nz_again = NoCall
    /\ utcnow = 0 /\ hashseed = 1
InitNoCall ==
    /\ sc_in = NoCall /\ sc_out = NoCall
    /\ InitNoTicketCall
    /\ InitNoApiCall

\* No job runs: the store is empty.
InitNoJob ==
    /\ jobPc = "nojob"
    /\ active_jobs = [j \in JobIds |-> NoEntry]
    /\ db_jobs = [j \in JobIds |-> NoRow]
    /\ db_extractions = [j \in JobIds |-> NoExtraction]
    /\ db_rankings = [j \in JobIds |-> <<>>]

\* A direct call extract_inc_with_teccms(jira, inc_key, num_threads=...).
Init ==
    /\ InitIdle
    /\ InitNoCall
    /\ tracker \in Trackers({"Standard Change"})
    /\ num_threads \in 1..MaxThreads
    /\ search_options = DefaultRequest
    /\ pc = "options"
    /\ s_opts = NoSearch /\ s_resp = NoResponse /\ s_out = NoOutput
    /\ InitNoJob

Next ==
    \/ BuildOptions
    \/ FetchIncident
    \/ SearchCandidates
    \/ SubmitAll
    \/ \E i \in Tasks : StartFetch(i)
    \/ \E i \in Tasks : Attempt(i)
    \/ \E i \in Tasks : Collect(i)
    \/ PoolExit
    \/ FinalProgress
    \/ RequestCancel

Spec == Init /\ [][Next]_vars

\* search_teccm_in_window called on its own, on every tracker answer and option.
InitSearch ==
    /\ InitIdle
    /\ InitNoCall
    /\ tracker = [k \in Keys \cup {INC} |-> Script(0, "none", "Standard Change")]
    /\ num_threads = DEFAULT_THREADS
    /\ search_options = DefaultRequest
    /\ pc = "idle"
    /\ s_opts \in SearchOptions
    /\ s_resp \in SearchResponses
    /\ s_out = NoOutput
    /\ InitNoJob

RunSearch ==
    /\ s_out = NoOutput
    /\ s_out' = search_teccm_in_window(s_resp, s_opts)
    /\ searchCalls' = searchCalls + 1
    /\ UNCHANGED <<tracker, issueCalls, connectCalls, engineVars, poolVars, cancelVars, reqVars, pureVars, s_opts, s_resp, jobVars>>

NextSearch == RunSearch

SpecSearch == InitSearch /\ [][NextSearch]_vars

\* -------------------------------------------------------- run_extraction_job
\* extraction_info["search_options"] as extract_inc_with_teccms builds it has no
\* key include_external_maintenance, so the job's
\* .get('include_external_maintenance', False) is False.
include_ext == FALSE

\* The except branch of run_extraction_job: the status becomes FAILED with
\* error = str(e); the in-memory entry gets status "failed" and the error.
\* Variant: the in-memory entry is put back to "connecting".
JobFail_reconnecting(err) ==
    /\ db_jobs' = update_job_status(db_jobs, JOB, "failed", Nothing, Nothing, Some(err))
    /\ active_jobs' = [active_jobs EXCEPT ![JOB] =
                         [@ EXCEPT !.status = "connecting", !.error = Some(err)]]
    /\ jobPc' = "sleeping"
    /\ UNCHANGED <<db_extractions, db_rankings>>

JobFail(err) ==
    /\ db_jobs' = update_job_status(db_jobs, JOB, "failed", Nothing, Nothing, Some(err))
    /\ active_jobs' = [active_jobs EXCEPT ![JOB] =
                         [@ EXCEPT !.status = "failed", !.error = Some(err)]]
    /\ jobPc' = "sleeping"
    /\ UNCHANGED <<db_extractions, db_rankings>>

\* Database.create_job: INSERT INTO jobs with status 'pending'
create_job(db, j) == [db EXCEPT ![j] = PendingRow]

\* start_extraction (POST /analysis/extract): the key is checked for the
\* prefix "INC-" (every request here has it), the job row is created, and
\* start_extraction_job creates the task of run_extraction_job.
StartExtraction ==
    /\ jobPc = "requested"
    /\ db_jobs' = create_job(db_jobs, JOB)
    /\ jobPc' = "created"
    /\ UNCHANGED <<envVars, reqVars, pureVars, engineVars, poolVars, cancelVars, searchVars,
                   active_jobs, db_extractions, db_rankings>>

\* _active_jobs[job_id] = {...}; db.update_job_status(job_id, RUNNING); the
\* coroutine then awaits connect_jira.
JobStart ==
    /\ jobPc = "created"
    /\ active_jobs' = [active_jobs EXCEPT ![JOB] =
                         [present |-> TRUE, progress |-> 0, total |-> 0,
                          status |-> "connecting", error |-> Nothing]]
    /\ db_jobs' = update_job_status(db_jobs, JOB, "running", Nothing, Nothing, Nothing)
    /\ jobPc' = "connecting"
    /\ UNCHANGED <<envVars, engineVars, poolVars, cancelVars, reqVars, pureVars, searchVars,
                   db_extractions, db_rankings>>

\* connect_jira returns the client or raises; on success the entry is marked
\* "extracting" and do_extraction is handed to the executor.
JobConnect ==
    /\ jobPc = "connecting"
    /\ connectCalls' = connectCalls + 1
    /\ \E connected \in BOOLEAN :
         IF connected
         THEN /\ active_jobs' = [active_jobs EXCEPT ![JOB] = [@ EXCEPT !.status = "extracting"]]
              /\ pc' = "options"
              /\ jobPc' = "extracting"
              /\ UNCHANGED <<db_jobs, db_extractions, db_rankings>>
         ELSE /\ JobFail("Failed to connect to Jira")
              /\ pc' = pc
    /\ UNCHANGED <<tracker, issueCalls, searchCalls, num_threads, inc_data, teccm_keys,
                   total, cbLog, poolVars, cancelVars, reqVars, pureVars, searchVars>>

\* The await of do_extraction ends: with the extraction data (saved, and the
\* entry marked "scoring") or with the ValueError of extract_inc_with_teccms
\* (of parse_window when the incident was not asked for yet).
JobAfterExtraction ==
    /\ jobPc = "extracting"
    /\ pc \in {"returned", "raised"}
    /\ IF pc = "returned"
       THEN /\ db_extractions' = save_extraction(db_extractions, JOB, tickets)
            /\ active_jobs' = [active_jobs EXCEPT ![JOB] = [@ EXCEPT !.status = "scoring"]]
            /\ jobPc' = "scoring"
            /\ UNCHANGED <<db_jobs, db_rankings>>
       ELSE JobFail(IF issueCalls[INC] = 0
                    THEN "Formato de ventana invalido"
                    ELSE "Could not extract incident")
    /\ UNCHANGED <<envVars, engineVars, poolVars, cancelVars, reqVars, pureVars, searchVars>>

\* The await of do_scoring ends: the ranking is saved and the job marked
\* COMPLETED with progress 100 and the number of CHANGE tickets, or
\* calculate_ranking raised.
JobScoring ==
    /\ jobPc = "scoring"
    /\ LET r == calculate_ranking(tickets, FALSE, Nothing, Nothing, Nothing)
           counted == IF include_ext
                      THEN TicketsOfType(tickets, "CHANGE")
                           \cup TicketsOfType(tickets, "EXTERNAL MAINTENANCE")
                      ELSE TicketsOfType(tickets, "CHANGE")
       IN  IF r.raised
           THEN JobFail(r.err)
           ELSE /\ db_rankings' = save_ranking(db_rankings, JOB, DefaultWeightsModel, r.data)
                /\ db_jobs' = update_job_status(db_jobs, JOB, "completed", Some(100),
                                                Some(Cardinality(counted)), Nothing)
                /\ active_jobs' = [active_jobs EXCEPT ![JOB] = [@ EXCEPT !.status = "completed"]]
                /\ jobPc' = "sleeping"
                /\ UNCHANGED db_extractions
    /\ UNCHANGED <<envVars, engineVars, poolVars, cancelVars, reqVars, pureVars, searchVars>>

\* finally: after asyncio.sleep(60) the in-memory entry is deleted.
JobCleanup ==
    /\ jobPc = "sleeping"
    /\ active_jobs' = [active_jobs EXCEPT ![JOB] = NoEntry]
    /\ jobPc' = "done"
    /\ UNCHANGED <<envVars, engineVars, poolVars, cancelVars, reqVars, pureVars, searchVars,
                   db_jobs, db_extractions, db_rankings>>

\* Tracker answers of the job runs: a key is a change, an external
\* maintenance, or cannot be fetched; the incident is found or not.
JobScripts ==
    { Script(0, "none", ty) : ty \in CandidateTypeNames }
    \cup { Script(MAX_RETRIES, "404", "Standard Change") }
JobTrackers ==
    { t \in [Keys \cup {INC} -> JobScripts \cup IncScripts] :
        /\ t[INC] \in IncScripts
        /\ \A k \in Keys : t[k] \in JobScripts }

\* A request reached start_extraction; another job's row is in the store.
\* do_extraction passes no num_threads.
InitJob ==
    /\ InitIdle
    /\ InitNoCall
    /\ tracker \in JobTrackers
    /\ num_threads = DEFAULT_THREADS
    /\ search_options \in Requests
    /\ pc = "idle"
    /\ s_opts = NoSearch /\ s_resp = NoResponse /\ s_out = NoOutput
    /\ jobPc = "requested"
    /\ active_jobs = [j \in JobIds |-> NoEntry]
    /\ db_jobs = [j \in JobIds |-> IF j = JOB THEN NoRow ELSE PendingRow]
    /\ db_extractions = [j \in JobIds |-> NoExtraction]
    /\ db_rankings = [j \in JobIds |-> <<>>]

NextJob ==
    \/ StartExtraction
    \/ JobStart
    \/ JobConnect
    \/ BuildOptions
    \/ FetchIncident
    \/ SearchCandidates
    \/ SubmitAll
    \/ \E i \in Tasks : StartFetch(i)
    \/ \E i \in Tasks : Attempt(i)
    \/ \E i \in Tasks : Collect(i)
    \/ PoolExit
    \/ FinalProgress
    \/ JobAfterExtraction
    \/ JobScoring
    \/ JobCleanup

SpecJob == InitJob /\ [][NextJob]_vars

\* The event loop and the executor threads keep running and every tracker call
\* returns: a step that can be taken is eventually taken.
SpecJobFair == SpecJob /\ WF_vars(NextJob)

\* ------------------------------------------------------- binary64 arithmetic
\* Python floats are IEEE-754 binary64 numbers; the scorer's arithmetic is done
\* here with their rounding. A natural number is the sequence of its digits in
\* base LimbBase, lowest first, with no leading zero; a float is m * 2^e with m
\* odd (or zero). All floats of the scorer are >= 0 and far from the exponent
\* limits.
MantissaBits == 53
LimbBits == 15
LimbBase == 2^LimbBits

RECURSIVE NatLimbs(_)
NatLimbs(n) == IF n = 0 THEN <<>> ELSE <<n % LimbBase>> \o NatLimbs(n \div LimbBase)

RECURSIVE LimbsNat(_)
LimbsNat(a) == IF a = <<>> THEN 0 ELSE a[1] + LimbBase * LimbsNat(Tail(a))

RECURSIVE LTrim(_)
LTrim(a) == IF a = <<>> \/ a[Len(a)] # 0 THEN a ELSE LTrim(SubSeq(a, 1, Len(a) - 1))

Limb(a, i) == IF i \in DOMAIN a THEN a[i] ELSE 0
Rest(a) == IF a = <<>> THEN <<>> ELSE Tail(a)

RECURSIVE LAddC(_, _, _)
LAddC(a, b, c) ==
    IF a = <<>> /\ b = <<>>
    THEN (IF c = 0 THEN <<>> ELSE <<c>>)
    ELSE LET s == Limb(a, 1) + Limb(b, 1) + c
         IN  <<s % LimbBase>> \o LAddC(Rest(a), Rest(b), s \div LimbBase)
LAdd(a, b) == LAddC(a, b, 0)

\* a - b for a >= b
RECURSIVE LSubB(_, _, _)
LSubB(a, b, borrow) ==
    IF a = <<>> THEN <<>>
    ELSE LET d == Limb(a, 1) - Limb(b, 1) - borrow
         IN  <<d % LimbBase>> \o LSubB(Rest(a), Rest(b), IF d < 0 THEN 1 ELSE 0)
LSub(a, b) == LTrim(LSubB(a, b, 0))

LLess(a, b) ==
    IF Len(a) # Len(b) THEN Len(a) < Len(b)
    ELSE \E i \in DOMAIN a : a[i] < b[i] /\ \A j \in DOMAIN a : j > i => a[j] = b[j]

\* a * d for 0 <= d < LimbBase
RECURSIVE LMulSmallC(_, _, _)
LMulSmallC(a, d, c) ==
    IF a = <<>> THEN (IF c = 0 THEN <<>> ELSE <<c>>)
    ELSE LET p == a[1] * d + c
         IN  <<p % LimbBase>> \o LMulSmallC(Tail(a), d, p \div LimbBase)
LMulSmall(a, d) == IF d = 0 THEN <<>> ELSE LMulSmallC(a, d, 0)

\* a \div d for 0 < d <= LimbBase, highest digit first; r is the remainder so far
RECURSIVE LDivSmallR(_, _, _)
LDivSmallR(a, d, r) ==
    IF a = <<>> THEN <<>>
    ELSE LET t == r * LimbBase + a[Len(a)]
         IN  Append(LDivSmallR(SubSeq(a, 1, Len(a) - 1), d, t % d), t \div d)
LDivSmall(a, d) == LTrim(LDivSmallR(a, d, 0))

LShlLimbs(a, k) == IF a = <<>> THEN <<>> ELSE [i \in 1..k |-> 0] \o a
LShrLimbs(a, k) == IF k >= Len(a) THEN <<>> ELSE SubSeq(a, k + 1, Len(a))

\* a * 2^k and a \div 2^k
LShl(a, k) == LShlLimbs(LMulSmall(a, 2^(k % LimbBits)), k \div LimbBits)
LShr(a, k) == LDivSmall(LShrLimbs(a, k \div LimbBits), 2^(k % LimbBits))

\* bit i of a (bit 1 is the lowest), the number of bits of a, and whether
\* one of the k lowest bits of a is set
LBit(a, i) == (Limb(a, (i - 1) \div LimbBits + 1) \div 2^((i - 1) % LimbBits)) % 2
BitLen(a) ==
    IF a = <<>> THEN 0
    ELSE LimbBits * (Len(a) - 1)
         + (CHOOSE k \in 1..LimbBits : 2^(k - 1) <= a[Len(a)] /\ a[Len(a)] < 2^k)
LowBitsSet(a, k) == \E i \in 1..k : LBit(a, i) = 1

RECURSIVE LMul(_, _)
LMul(a, b) ==
    IF a = <<>> \/ b = <<>> THEN <<>>
    ELSE LAdd(LMulSmall(a, b[1]), LShlLimbs(LMul(a, Tail(b)), 1))

\* Long division of a by b (b # 0), bit by bit from the highest bit of a:
\* the bits hi, hi - 1, .., lo of a are brought down into st = [quot, rem].
RECURSIVE LDivBits(_, _, _, _, _)
LDivBits(a, b, st, hi, lo) ==
    IF hi < lo THEN st
    ELSE IF hi = lo
    THEN LET r1 == LAdd(LAdd(st.rem, st.rem), IF LBit(a, hi) = 1 THEN <<1>> ELSE <<>>)
             q1 == LAdd(st.quot, st.quot)
         IN  IF LLess(r1, b)
             THEN [quot |-> q1, rem |-> r1]
             ELSE [quot |-> LAdd(q1, <<1>>), rem |-> LSub(r1, b)]
    ELSE LET mid == (hi + lo) \div 2
             upper == LDivBits(a, b, st, hi, mid + 1)
         IN  IF upper.rem = <<>> \/ upper.rem # <<>>
             THEN LDivBits(a, b, upper, mid, lo)
             ELSE st
LDivMod(a, b) == LDivBits(a, b, [quot |-> <<>>, rem |-> <<>>], BitLen(a), 1)

\* The float m * 2^e, with the low zero bits of m moved into e.
FZero == [m |-> <<>>, e |-> 0]
RECURSIVE FNorm(_, _)
FNorm(m, e) ==
    IF m = <<>> THEN FZero
    ELSE IF m[1] = 0 THEN FNorm(Tail(m), e + LimbBits)
    ELSE LET z == CHOOSE k \in 0..(LimbBits - 1) : m[1] % 2^k = 0 /\ m[1] % 2^(k + 1) # 0
         IN  [m |-> LShr(m, z), e |-> e + z]

\* Round-to-nearest, ties-to-even, of the exact value n * 2^e (plus a non-zero
\* part below the last bit of n when sticky), to MantissaBits bits.
FRound(n, e, sticky) ==
    IF BitLen(n) <= MantissaBits THEN FNorm(n, e)
    ELSE LET k == BitLen(n) - MantissaBits
             kept == LShr(n, k)
             half == LBit(n, k) = 1
             below == sticky \/ LowBitsSet(n, k - 1)
             up == half /\ (below \/ kept[1] % 2 = 1)
         IN  FNorm(IF up THEN LAdd(kept, <<1>>) ELSE kept, e + k)

FInt(n) == FNorm(NatLimbs(n), 0)

FAdd(x, y) ==
    IF x.m = <<>> THEN y
    ELSE IF y.m = <<>> THEN x
    ELSE LET lo == IF x.e < y.e THEN x.e ELSE y.e
         IN  FRound(LAdd(LShl(x.m, x.e - lo), LShl(y.m, y.e - lo)), lo, FALSE)

FMul(x, y) == FRound(LMul(x.m, y.m), x.e + y.e, FALSE)

\* x / y for y # 0: the quotient is computed to MantissaBits + 2 bits at least.
FDiv(x, y) ==
    IF x.m = <<>> THEN FZero
    ELSE LET k == MantissaBits + 2 + BitLen(y.m)
             d == LDivMod(LShl(x.m, k), y.m)
         IN  FRound(d.quot, x.e - k - y.e, d.rem # <<>>)

FLess(x, y) ==
    IF y.m = <<>> THEN FALSE
    ELSE IF x.m = <<>> THEN TRUE
    ELSE LET lo == IF x.e < y.e THEN x.e ELSE y.e
         IN  LLess(LShl(x.m, x.e - lo), LShl(y.m, y.e - lo))

\* round(x, 1), in tenths: Python rounds the exact binary value of x to one
\* decimal, ties to even.
RoundTenths(x) ==
    IF x.m = <<>> THEN 0
    ELSE LET n == LMulSmall(x.m, 10)
         IN  IF x.e >= 0 THEN LimbsNat(LShl(n, x.e))
             ELSE LET k == 0 - x.e
                      q == LimbsNat(LShr(n, k))
                      half == LBit(n, k) = 1
                      below == LowBitsSet(n, k - 1)
                  IN  IF half /\ (below \/ q % 2 = 1) THEN q + 1 ELSE q

\* ------------------------------------------------------------- the scorer
\* Decimal numbers (weights, multipliers, sub-scores) are given as num / den
\* and become the float nearest to that value, as a numeric literal does.
FRat(n, den) == FDiv(FInt(n), FInt(den))

\* DEFAULT_WEIGHTS, in hundredths, in the order time, service, infra, org
DEFAULT_WEIGHTS == [num |-> <<35, 30, 20, 15>>, den |-> 100]

\* DEFAULT_PENALTIES and DEFAULT_BONUSES, as <<numerator, denominator>>
MultiplierLiteral(name) ==
    CASE name = "no_live_intervals"     -> <<8, 10>>
      [] name = "no_hosts"              -> <<95, 100>>
      [] name = "no_services"           -> <<9, 10>>
      [] name = "generic_change"        -> <<5, 10>>
      [] name = "long_duration_week"    -> <<8, 10>>
      [] name = "long_duration_month"   -> <<6, 10>>
      [] name = "long_duration_quarter" -> <<4, 10>>
      [] name = "proximity_exact"       -> <<15, 10>>
      [] name = "proximity_1h"          -> <<13, 10>>
      [] name = "proximity_2h"          -> <<12, 10>>
      [] name = "proximity_4h"          -> <<11, 10>>
Multiplier(name) == FRat(MultiplierLiteral(name)[1], MultiplierLiteral(name)[2])

\* weights = weights or DEFAULT_WEIGHTS.copy(); total_weight = sum(weights.values());
\* weights = {k: v / total_weight}. sum() adds from the left, starting at 0.
\* raised: ZeroDivisionError.
RECURSIVE sum(_, _)
sum(values, n) == IF n = 0 THEN FZero ELSE FAdd(sum(values, n - 1), values[n])

normalize_weights(weights) ==
    LET given == IF weights = Nothing THEN DEFAULT_WEIGHTS ELSE weights[1]
        w == [i \in 1..4 |-> FRat(given.num[i], given.den)]
        total_weight == sum(w, 4)
    IN  IF total_weight = FZero
        THEN [raised |-> TRUE, w |-> w]
        ELSE [raised |-> FALSE, w |-> [i \in 1..4 |-> FDiv(w[i], total_weight)]]

\* What score_teccm reads of a change, once its four sub-scores are computed:
\*   time, service, infra, org: the sub-scores (rounded to one decimal by the
\*       calculate_*_score functions), in tenths;
\*   no_live_intervals, no_hosts, no_services: the ticket has none;
\*   generic: more than GENERIC_CHANGE_THRESHOLD services;
\*   duration: the long_duration_* penalty the planned pair falls under, or "none";
\*   proximity: the proximity_* bonus the planned start falls under, or "none".
Times(f, cond, name) == IF cond THEN FMul(f, Multiplier(name)) ELSE f

\* time * w_time + service * w_service + infra * w_infra + org * w_org, added
\* from the left.
RECURSIVE weighted_sum(_, _, _)
weighted_sum(weights, sub, n) ==
    IF n = 1 THEN FMul(weights[1], sub[1])
    ELSE FAdd(weighted_sum(weights, sub, n - 1), FMul(weights[n], sub[n]))

\* The penalties and bonuses, applied in the order of `steps`.
RECURSIVE adjusted(_, _)
adjusted(f, steps) ==
    IF steps = <<>> THEN f
    ELSE adjusted(Times(f, Head(steps).on, Head(steps).name), Tail(steps))

\* score_teccm: round(final_score, 1), in tenths.
score_teccm(weights, c) ==
    LET tenths == <<c.time, c.service, c.infra, c.org>>
        sub == [i \in 1..4 |-> FRat(tenths[i], 10)]
        strong_match == FLess(FInt(80), FAdd(sub[2], sub[3]))
        steps == << [on |-> c.no_live_intervals, name |-> "no_live_intervals"],
                    [on |-> c.no_hosts, name |-> "no_hosts"],
                    [on |-> c.no_services, name |-> "no_services"],
                    [on |-> c.generic, name |-> "generic_change"],
                    [on |-> c.duration # "none" /\ ~strong_match, name |-> c.duration],
                    [on |-> c.proximity # "none", name |-> c.proximity] >>
    IN  RoundTenths(adjusted(weighted_sum(weights, sub, 4), steps))

\* sorted(scores, key=lambda x: x.final_score, reverse=True): a stable sort, so
\* equal scores keep the order they have in the list.
sorted_by_final_score(scores) ==
    LET pos(i) == 1 + Cardinality({ j \in DOMAIN scores :
                                      scores[j].final_score > scores[i].final_score })
                    + Cardinality({ j \in DOMAIN scores :
                                      j < i /\ scores[j].final_score = scores[i].final_score })
    IN  [p \in DOMAIN scores |-> scores[CHOOSE i \in DOMAIN scores : pos(i) = p]]

\* The changes the scorer is called on: a ticket whose team is the incident's
\* and nothing else in common, executed far from the impact; a ticket executed
\* at the impact with strong service and host matches; a planned ticket without
\* live intervals, hosts or services that lasts over a week and starts within
\* the hour; a ticket with nothing in common.
Profile(t, s, i, o, nl, nh, ns, dur, prox) ==
    [time |-> t, service |-> s, infra |-> i, org |-> o,
     no_live_intervals |-> nl, no_hosts |-> nh, no_services |-> ns,
     generic |-> FALSE, duration |-> dur, proximity |-> prox]
Profiles ==
    { Profile(0, 0, 0, 500, FALSE, FALSE, FALSE, "none", "none"),
      Profile(1000, 750, 600, 0, FALSE, FALSE, FALSE, "long_duration_week", "proximity_exact"),
      Profile(900, 0, 0, 250, TRUE, TRUE, TRUE, "long_duration_week", "proximity_1h"),
      Profile(0, 0, 0, 0, FALSE, FALSE, FALSE, "none", "none") }

\* The weights of the calls, as the decimal numbers of the request.
WeightSamples ==
    { DEFAULT_WEIGHTS,
      [num |-> <<10, 50, 10, 10>>, den |-> 100],
      [num |-> <<10, 10, 30, 30>>, den |-> 100] }
\* Positive constants c = mul / div the weights are multiplied by.
Scales == { [mul |-> 1, div |-> 10], [mul |-> 3, div |-> 1] }
Scaled(w, c) == [num |-> [i \in 1..4 |-> w.num[i] * c.mul], den |-> w.den * c.div]
AllWeights ==
    { Some(w) : w \in WeightSamples }
    \cup { Some(Scaled(w, c)) : w \in WeightSamples, c \in Scales }
    \cup { Nothing }

\* score_teccm of every change under every weights argument (each score is
\* computed once).
FinalScores ==
    [w \in AllWeights |->
        [c \in Profiles |-> score_teccm(normalize_weights(w).w, c)]]

\* calculate_ranking, lines 606-642: the scores not below min_score, sorted,
\* numbered from 1.
calculate_ranking_rows(weights, changes, min_score) ==
    LET scores == [i \in DOMAIN changes |->
                     [issue_key |-> changes[i].issue_key,
                      final_score |-> FinalScores[weights][changes[i].profile]]]
        Shown(x) == x.final_score >= min_score
        ranking == sorted_by_final_score(SelectSeq(scores, Shown))
    IN  [i \in DOMAIN ranking |->
           [rank |-> i, issue_key |-> ranking[i].issue_key,
            final_score |-> ranking[i].final_score]]

\* calculate_ranking called with the changes in the order `order`, then with
\* the same changes in the order `reorder`, then with the weights multiplied
\* by `scale`.
RankingCalls ==
    [weights : WeightSamples, scale : Scales, profile : [Keys -> Profiles],
     order : Orderings(Keys), reorder : Orderings(Keys)]

ChangesOf(call, ord) ==
    [i \in DOMAIN ord |-> [issue_key |-> ord[i], profile |-> call.profile[ord[i]]]]

InitRanking ==
    /\ InitIdle
    /\ InitNoJob
    /\ tracker = [k \in Keys \cup {INC} |-> Script(0, "none", "Standard Change")]
    /\ num_threads = DEFAULT_THREADS
    /\ search_options = DefaultRequest
    /\ pc = "idle"
    /\ s_opts = NoSearch /\ s_resp = NoResponse /\ s_out = NoOutput
    /\ sc_in \in RankingCalls
    /\ sc_out = NoCall
    /\ InitNoTicketCall
    /\ InitNoApiCall

CallCalculateRanking ==
    /\ sc_out = NoCall
    /\ sc_out' =
         [call \in {"base", "reordered", "scaled"} |->
            calculate_ranking_rows(
               Some(IF call = "scaled" THEN Scaled(sc_in.weights, sc_in.scale)
                    ELSE sc_in.weights),
               ChangesOf(sc_in, IF call = "reordered" THEN sc_in.reorder ELSE sc_in.order),
               0)]
    /\ UNCHANGED <<envVars, reqVars, engineVars, poolVars, cancelVars, searchVars,
                   jobVars, sc_in, nzVars, apiVars>>

NextRanking == CallCalculateRanking

SpecRanking == InitRanking /\ [][NextRanking]_vars

\* ------------------------------------------------------- the proximity bonus
\* diff_hours = abs((inc_time - teccm_start).total_seconds() / 3600), compared
\* with PROXIMITY_THRESHOLDS exact (0.5), 1h (1.0), 2h (2.0) and 4h (4.0). The
\* instants are whole seconds, and d / 3600 <= h is d <= 3600 * h for these h.
\* Variant: the threshold of "exact" is a quarter of an hour.
proximity_bonus_quarter_hour(inc_time, teccm_start) ==
    LET diff == IF inc_time >= teccm_start THEN inc_time - teccm_start
                ELSE teccm_start - inc_time
    IN  IF diff <= 900 THEN "proximity_exact"
        ELSE IF diff <= 3600 THEN "proximity_1h"
        ELSE IF diff <= 7200 THEN "proximity_2h"
        ELSE IF diff <= 14400 THEN "proximity_4h"
        ELSE "none"
proximity_bonus(inc_time, teccm_start) ==
    LET diff == IF inc_time >= teccm_start THEN inc_time - teccm_start
                ELSE teccm_start - inc_time
    IN  IF diff <= 1800 THEN "proximity_exact"
        ELSE IF diff <= 3600 THEN "proximity_1h"
        ELSE IF diff <= 7200 THEN "proximity_2h"
        ELSE IF diff <= 14400 THEN "proximity_4h"
        ELSE "none"

\* score_teccm on a change with live intervals, hosts and services, whose four
\* sub-scores are given (in tenths), under the default weights. The incident's
\* impact time and the change's planned start are seconds of one day; 44400 is
\* 12:20:00 and 43200 is 12:00:00.
ScoreCalls ==
    [time : {0, 500, 1000}, service : {0, 1000}, infra : {0, 600}, org : {0},
     inc_time : {44400},
     teccm_start : {43200, 42600, 42599, 40800, 37200, 30000, 46200, 46201}]

InitScore ==
    /\ InitIdle
    /\ InitNoJob
    /\ tracker = [k \in Keys \cup {INC} |-> Script(0, "none", "Standard Change")]
    /\ num_threads = DEFAULT_THREADS
    /\ search_options = DefaultRequest
    /\ pc = "idle"
    /\ s_opts = NoSearch /\ s_resp = NoResponse /\ s_out = NoOutput
    /\ sc_in \in ScoreCalls
    /\ sc_out = NoCall
    /\ InitNoTicketCall
    /\ InitNoApiCall

CallScoreTeccm ==
    /\ sc_out = NoCall
    /\ LET bonus == proximity_bonus(sc_in.inc_time, sc_in.teccm_start)
           change == Profile(sc_in.time, sc_in.service, sc_in.infra, sc_in.org,
                             FALSE, FALSE, FALSE, "none", bonus)
       IN  sc_out' = [bonus |-> bonus,
                      final_score |-> score_teccm(normalize_weights(Nothing).w, change)]
    /\ UNCHANGED <<envVars, reqVars, engineVars, poolVars, cancelVars, searchVars,
                   jobVars, sc_in, nzVars, apiVars>>

NextScore == CallScoreTeccm

SpecScore == InitScore /\ [][NextScore]_vars

\* ------------------------------------------------------ calculate_time_score
\* A time string is Nothing (None or ""), Some(t) for the instant t in seconds,
\* or Garbled: a string strptime rejects (normalize_datetime hands such a
\* string on unchanged).
Garbled == <<-1>>

\* parse_datetime: the instant, or None for an empty or unparsable string.
parse_datetime(dt_str) ==
    IF dt_str = Nothing \/ dt_str = Garbled THEN Nothing ELSE dt_str

\* impact_str = inc_first_impact or inc_created
\* Variant: the creation time is taken whatever the first impact time is.
impact_str_created_only(inc_first_impact, inc_created) == inc_created
impact_str(inc_first_impact, inc_created) ==
    IF inc_first_impact # Nothing THEN inc_first_impact ELSE inc_created

\* round(coef * (1 - (d / D) ** 0.5), 1) in tenths, for 0 <= d < D, where d and
\* D = decay_hours * 3600 are in seconds (the code divides both by 60). The
\* value n is the integer nearest to x = 10 * coef * (1 - sqrt(d / D)); with
\* t = 2 * (10 * coef - n) that is (t - 1)^2 * D <= 4 * (10 * coef)^2 * d <= (t + 1)^2 * D,
\* where both sides are divided by 400.
decay_score(coef, d, decay_hours) ==
    LET lhs(t) == t * t * 9 * decay_hours
        mid == coef * coef * d
        near(n) == LET t == 2 * (10 * coef - n)
                   IN  (t = 0 \/ lhs(t - 1) <= mid) /\ mid <= lhs(t + 1)
        ns == { n \in 0..(10 * coef) : near(n) }
    IN  IF \E n \in ns : n % 2 = 0
        THEN CHOOSE n \in ns : n % 2 = 0
        ELSE CHOOSE n \in ns : TRUE

TimeScore(score, reason) == [score |-> score, reason |-> reason]

\* calculate_time_score; the score is in tenths, the reason names the return
\* statement taken. Live intervals are pairs of instants: the normalizer
\* writes both ends with strftime, so parse_datetime reads them back.
calculate_time_score(inc_first_impact, inc_created, teccm_live_intervals, teccm_planned_start, teccm_planned_end, decay_hours) ==
    LET impact == parse_datetime(impact_str(inc_first_impact, inc_created))
        impact_time == impact[1]
        max_seconds == decay_hours * 3600
        distance(iv) == IF impact_time < iv.start THEN iv.start - impact_time
                        ELSE IF impact_time > iv.end THEN impact_time - iv.end
                        ELSE 0
        distances == { distance(teccm_live_intervals[i]) : i \in DOMAIN teccm_live_intervals }
        min_distance == CHOOSE d \in distances : \A o \in distances : d <= o
        planned_start == parse_datetime(teccm_planned_start)
        planned_end == parse_datetime(teccm_planned_end)
        after(t) == impact_time - t
    IN  IF impact = Nothing
        THEN TimeScore(0, "No se pudo determinar tiempo de impacto")
        ELSE IF \E i \in DOMAIN teccm_live_intervals :
                  /\ teccm_live_intervals[i].start <= impact_time
                  /\ impact_time <= teccm_live_intervals[i].end
        THEN TimeScore(1000, "dentro de live_interval")
        ELSE IF teccm_live_intervals # <<>>
        THEN TimeScore(IF min_distance = 0 THEN 1000
                       ELSE IF min_distance >= max_seconds THEN 0
                       ELSE decay_score(100, min_distance, decay_hours),
                       "Distancia a live_interval")
        ELSE IF planned_start # Nothing /\ planned_end # Nothing
        THEN IF planned_start[1] <= impact_time /\ impact_time <= planned_end[1]
             THEN TimeScore(900, "dentro de planned")
             ELSE IF impact_time < planned_start[1]
             THEN TimeScore(0, "Impacto anterior al cambio planificado")
             ELSE TimeScore(IF after(planned_end[1]) >= max_seconds THEN 0
                            ELSE decay_score(80, after(planned_end[1]), decay_hours),
                            "Distancia a planned_end")
        ELSE IF planned_start # Nothing
        THEN IF impact_time < planned_start[1]
             THEN TimeScore(0, "Impacto anterior al cambio")
             ELSE TimeScore(IF after(planned_start[1]) >= max_seconds THEN 0
                            ELSE decay_score(70, after(planned_start[1]), decay_hours),
                            "Distancia a planned_start")
        ELSE TimeScore(0, "Sin informacion temporal del cambio")

\* Instants of the calls, in seconds: an hour, and one second less than and
\* exactly time_decay_hours after it.
time_decay_hours == 4
Instants == {0, 3600, 3600 + time_decay_hours * 3600 - 1, 3600 + time_decay_hours * 3600}
Intervals == [start : Instants, end : Instants]
IntervalLists == UNION { [1..n -> Intervals] : n \in 0..MaxIntervals }
TimeStrings == {Nothing, Garbled} \cup { Some(t) : t \in Instants }

TimeScoreCalls ==
    [fn : {"calculate_time_score"},
     inc_first_impact : {Nothing} \cup { Some(t) : t \in Instants },
     inc_created : { Some(0), Some(3600) },
     teccm_live_intervals : IntervalLists,
     teccm_planned_start : TimeStrings,
     teccm_planned_end : TimeStrings]

InitTimeScore ==
    /\ InitIdle
    /\ InitNoJob
    /\ tracker = [k \in Keys \cup {INC} |-> Script(0, "none", "Standard Change")]
    /\ num_threads = DEFAULT_THREADS
    /\ search_options = DefaultRequest
    /\ pc = "idle"
    /\ s_opts = NoSearch /\ s_resp = NoResponse /\ s_out = NoOutput
    /\ sc_in \in TimeScoreCalls
    /\ sc_out = NoCall
    /\ InitNoTicketCall
    /\ InitNoApiCall

CallCalculateTimeScore ==
    /\ sc_out = NoCall
    /\ sc_out' = calculate_time_score(sc_in.inc_first_impact, sc_in.inc_created,
                                      sc_in.teccm_live_intervals,
                                      sc_in.teccm_planned_start, sc_in.teccm_planned_end,
                                      time_decay_hours)
    /\ UNCHANGED <<envVars, reqVars, engineVars, poolVars, cancelVars, searchVars,
                   jobVars, sc_in, nzVars, apiVars>>

NextTimeScore == CallCalculateTimeScore

SpecTimeScore == InitTimeScore /\ [][NextTimeScore]_vars

\* ------------------------------------------------- the times of a ticket
\* A date and time is the sequence <<year, month, day, hour, minute, second>>;
\* the text "%Y-%m-%dT%H:%M:%S" of two of them compares as the sequences do.
StampLess(a, b) ==
    \E i \in 1..6 : a[i] < b[i] /\ \A j \in 1..(i - 1) : a[j] = b[j]
StampLeq(a, b) == a = b \/ StampLess(a, b)

IsLeap(y) == (y % 4 = 0 /\ y % 100 # 0) \/ y % 400 = 0
DaysIn(y, mo) ==
    IF mo = 2 THEN (IF IsLeap(y) THEN 29 ELSE 28)
    ELSE IF mo \in {4, 6, 9, 11} THEN 30 ELSE 31

\* datetime.strptime: the fields are digits already, and the call raises when
\* one of them is out of its range.
strptime_ok(s) ==
    /\ s[1] >= 1
    /\ s[2] \in 1..12
    /\ s[3] >= 1 /\ s[3] <= DaysIn(s[1], s[2])
    /\ s[4] \in 0..23 /\ s[5] \in 0..59 /\ s[6] \in 0..59

\* A date/time field of the tracker is a text: head is what its first 19
\* characters read as "%Y-%m-%dT%H:%M:%S" hold, tail the characters after them
\* (fraction and UTC offset). normalize_datetime gives None for no text, the
\* head followed by "Z" when the head parses, and the text itself otherwise.
normalize_datetime(dt_str) ==
    IF dt_str = Nothing THEN Nothing
    ELSE IF strptime_ok(dt_str[1].head)
         THEN Some([head |-> dt_str[1].head, tail |-> "Z"])
         ELSE dt_str

\* parse_interval_date, called without reference_date: date_str is
\* <<day, month, year>>, time_str is <<hour, minute>>.
parse_interval_date(date_str, time_str) ==
    IF date_str # <<>>
    THEN LET s == <<date_str[3], date_str[2], date_str[1], time_str[1], time_str[2], 0>>
         IN  IF strptime_ok(s) THEN Some(s) ELSE Nothing
    ELSE Nothing

\* The intervals of the matches of INTERVAL_PATTERN in one comment body; a
\* match is the four groups start_date, start_time, end_date, end_time, the
\* third empty when the text has no end date.
RECURSIVE intervals_of_matches(_)
intervals_of_matches(matches) ==
    IF matches = <<>> THEN <<>>
    ELSE LET match == Head(matches)
             end_date == IF match.end_date = <<>> THEN match.start_date
                         ELSE match.end_date
             start_iso == parse_interval_date(match.start_date, match.start_time)
             end_iso == parse_interval_date(end_date, match.end_time)
         IN  (IF start_iso # Nothing /\ end_iso # Nothing
              THEN << [start |-> start_iso[1], end |-> end_iso[1]] >>
              ELSE <<>>) \o intervals_of_matches(Tail(matches))

\* extract_live_intervals: comments is the sequence of the comments' bodies,
\* each the sequence of its matches; an empty body is skipped.
RECURSIVE extract_live_intervals(_)
extract_live_intervals(comments) ==
    IF comments = <<>> THEN <<>>
    ELSE intervals_of_matches(Head(comments)) \o extract_live_intervals(Tail(comments))

NoLiveIntervalsWarning == "No live_intervals found in comments, using planned_start/end"

\* The times and the warnings extract_ticket writes into the normalized ticket.
extract_ticket_times(ticket_type, comments, start_datetime, end_datetime) ==
    LET live_intervals == extract_live_intervals(comments)
        warnings == IF ticket_type = "CHANGE" /\ live_intervals = <<>>
                    THEN << NoLiveIntervalsWarning >> ELSE <<>>
    IN  [planned_start |-> normalize_datetime(start_datetime),
         planned_end |-> normalize_datetime(end_datetime),
         live_intervals |-> live_intervals,
         warnings |-> warnings]

\* list(set(...)) of extract_hosts: the order in which a set of strings is
\* walked depends on the hashes of the strings, which Python seeds anew in
\* every process. Hosts are numbered; one seed walks them upwards, the other
\* downwards.
HashSeeds == {1, 2}
RECURSIVE list_of_set(_, _)
list_of_set(S, seed) ==
    IF S = {} THEN <<>>
    ELSE LET first == IF seed = 1 THEN CHOOSE h \in S : \A g \in S : h <= g
                      ELSE CHOOSE h \in S : \A g \in S : h >= g
         IN  <<first>> \o list_of_set(S \ {first}, seed)

\* datetime.utcnow().strftime("%Y-%m-%dT%H:%M:%SZ"): the clock cut to the second.
strftime_seconds(now) == now \div 2

\* The normalized ticket of extract_ticket: the times and warnings, the hosts
\* found in the text, and _extraction.extracted_at.
normalized_ticket(call, now, seed) ==
    LET t == extract_ticket_times(call.ticket_type, call.comments,
                                  call.start_datetime, call.end_datetime)
    IN  [planned_start |-> t.planned_start,
         planned_end |-> t.planned_end,
         live_intervals |-> t.live_intervals,
         warnings |-> t.warnings,
         hosts |-> list_of_set(call.hosts, seed),
         extracted_at |-> strftime_seconds(now)]

\* The texts of the calls: two days and a day February does not have, two
\* times and an hour no day has.
CommentDates == { <<10, 1, 2024>>, <<11, 1, 2024>>, <<30, 2, 2024>> }
CommentTimes == { <<11, 0>>, <<12, 0>>, <<24, 0>> }
Matches ==
    [start_date : CommentDates \ { <<30, 2, 2024>> },
     start_time : CommentTimes,
     end_date : CommentDates \cup { <<>> },
     end_time : CommentTimes]
CommentLists ==
    {<<>>} \cup { << body >> : body \in UNION { [1..n -> Matches] : n \in 0..MaxBrackets } }
FieldTexts ==
    {Nothing}
      \cup { Some([head |-> <<2024, 1, 10, h, 0, 0>>, tail |-> ".000+0000"]) : h \in {11, 12} }
      \cup { Some([head |-> <<2024, 13, 10, 11, 0, 0>>, tail |-> ".000+0000"]) }

ExtractTicketCalls ==
    [fn : {"extract_ticket"},
     ticket_type : {"CHANGE", "INCIDENT"},
     comments : CommentLists,
     start_datetime : FieldTexts,
     end_datetime : FieldTexts,
     hosts : { {}, {1, 2} }]

InitNormalizer ==
    /\ InitIdle
    /\ InitNoJob
    /\ tracker = [k \in Keys \cup {INC} |-> Script(0, "none", "Standard Change")]
    /\ num_threads = DEFAULT_THREADS
    /\ search_options = DefaultRequest
    /\ pc = "idle"
    /\ s_opts = NoSearch /\ s_resp = NoResponse /\ s_out = NoOutput
    /\ sc_in = NoCall /\ sc_out = NoCall
    /\ nz_in \in ExtractTicketCalls
    /\ nz_out = NoCall /\ nz_again = NoCall
    /\ InitNoApiCall
    /\ utcnow = 0
    /\ hashseed \in HashSeeds

CallExtractTicket ==
    /\ nz_in # NoCall
    /\ nz_out = NoCall
    /\ nz_out' = normalized_ticket(nz_in, utcnow, hashseed)
    /\ UNCHANGED <<envVars, reqVars, engineVars, poolVars, cancelVars, searchVars,
                   jobVars, apiVars, sc_in, sc_out, nz_in, nz_again, utcnow, hashseed>>

\* Time passes between the two calls.
Tick ==
    /\ nz_out # NoCall /\ nz_again = NoCall
    /\ utcnow < MaxClock
    /\ utcnow' = utcnow + 1
    /\ UNCHANGED <<envVars, reqVars, engineVars, poolVars, cancelVars, searchVars,
                   jobVars, apiVars, sc_in, sc_out, nz_in, nz_out, nz_again, hashseed>>

\* The service is restarted between the two calls: the new process has
\* another hash seed.
Restart ==
    /\ nz_out # NoCall /\ nz_again = NoCall
    /\ hashseed' \in HashSeeds \ {hashseed}
    /\ UNCHANGED <<envVars, reqVars, engineVars, poolVars, cancelVars, searchVars,
                   jobVars, apiVars, sc_in, sc_out, nz_in, nz_out, nz_again, utcnow>>

\* extract_ticket is called again on the same fields and comments.
CallExtractTicketAgain ==
    /\ nz_out # NoCall /\ nz_again = NoCall
    /\ nz_again' = normalized_ticket(nz_in, utcnow, hashseed)
    /\ UNCHANGED <<envVars, reqVars, engineVars, poolVars, cancelVars, searchVars,
                   jobVars, apiVars, sc_in, sc_out, nz_in, nz_out, utcnow, hashseed>>

NextNormalizer ==
    \/ CallExtractTicket
    \/ Tick
    \/ Restart
    \/ CallExtractTicketAgain

SpecNormalizer == InitNormalizer /\ [][NextNormalizer]_vars

\* ------------------------------------------------- the API beside the job
\* Largest number of ranking rows a job gets from the API.
MaxRankings == 2

\* Database.get_weights: the stored weights, or Weights().
get_weights(cfg) == IF cfg.weights # Nothing THEN cfg.weights[1] ELSE DefaultWeightsModel

\* Weights the model class accepts (each component in [0, 1]): one with zero
\* components and the all-zero one.
OneSidedWeights == [num |-> <<100, 0, 0, 0>>, den |-> 100]
ZeroWeights == [num |-> <<0, 0, 0, 0>>, den |-> 100]
AcceptedWeights == { DefaultWeightsModel, OneSidedWeights, ZeroWeights }
\* ScoreRequest.weights: left out, or accepted weights.
ScoreRequestWeights == { Nothing } \cup { Some(w) : w \in { OneSidedWeights, ZeroWeights } }

\* total_weight = sum(weights.values()) is zero: the division raises.
ZeroTotal == [w \in AcceptedWeights |-> normalize_weights(Some(w)).raised]

Response(op, status, detail, computed, applied) ==
    [op |-> op, status |-> status, detail |-> detail, computed |-> computed,
     applied |-> applied]

\* Database.delete_job: one transaction deleting the job's rankings, its
\* extraction and its row; true when a row of jobs was deleted.
delete_job_returns(j) == db_jobs[j].present

\* DELETE /analysis/jobs/{job_id}
DeleteJob(j) ==
    /\ db_rankings' = [db_rankings EXCEPT ![j] = <<>>]
    /\ db_extractions' = [db_extractions EXCEPT ![j] = NoExtraction]
    /\ db_jobs' = [db_jobs EXCEPT ![j] = NoRow]
    /\ deleted' = IF delete_job_returns(j) THEN deleted \cup {j} ELSE deleted
    /\ api_out' = IF delete_job_returns(j)
                  THEN Response("delete", 200, "Job deleted", FALSE, NoTables)
                  ELSE Response("delete", 404, "Job not found", FALSE, NoTables)
    /\ UNCHANGED <<envVars, reqVars, engineVars, poolVars, cancelVars, searchVars,
                   jobPc, active_jobs, sc_in, sc_out, nzVars, db_config, otherPc>>

\* POST /analysis/score: recalculate_score. Only the weights are handed to
\* calculate_ranking.
RecalculateScore(j, request_weights) ==
    /\ Len(db_rankings[j]) < MaxRankings
    /\ LET extraction == db_extractions[j]
           weights == IF request_weights # Nothing THEN request_weights[1]
                      ELSE get_weights(db_config)
           r == calculate_ranking(extraction.tickets, ZeroTotal[weights],
                                  Nothing, Nothing, Nothing)
       IN  IF ~extraction.present
           THEN /\ api_out' = Response("score", 404, "Extraction data not found", FALSE, NoTables)
                /\ UNCHANGED db_rankings
           ELSE IF r.raised
           THEN /\ api_out' = Response("score", 500, r.err, TRUE, NoTables)
                /\ UNCHANGED db_rankings
           ELSE /\ db_rankings' = save_ranking(db_rankings, j, weights, r.data)
                /\ api_out' = Response("score", 200, "none", TRUE, r.data.analysis)
    /\ UNCHANGED <<envVars, reqVars, engineVars, poolVars, cancelVars, searchVars,
                   jobPc, active_jobs, db_jobs, db_extractions, sc_in, sc_out, nzVars,
                   db_config, deleted, otherPc>>

\* GET /analysis/{job_id}/ranking: get_ranking. The latest stored ranking is
\* returned when there is one; else the ranking is calculated with the stored
\* weights and saved. An exception of calculate_ranking is not caught here.
GetRanking(j) ==
    /\ LET extraction == db_extractions[j]
           weights == get_weights(db_config)
           r == calculate_ranking(extraction.tickets, ZeroTotal[weights],
                                  Nothing, Nothing, Nothing)
           rows == db_rankings[j]
       IN  IF rows # <<>>
           THEN /\ api_out' = Response("ranking", 200, "none", FALSE,
                                       rows[Len(rows)].data.analysis)
                /\ UNCHANGED db_rankings
           ELSE IF ~extraction.present
           THEN /\ api_out' = Response("ranking", 404, "Job data not found", FALSE, NoTables)
                /\ UNCHANGED db_rankings
           ELSE IF r.raised
           THEN /\ api_out' = Response("ranking", 500, "Internal Server Error", TRUE, NoTables)
                /\ UNCHANGED db_rankings
           ELSE /\ db_rankings' = save_ranking(db_rankings, j, weights, r.data)
                /\ api_out' = Response("ranking", 200, "none", TRUE, r.data.analysis)
    /\ UNCHANGED <<envVars, reqVars, engineVars, poolVars, cancelVars, searchVars,
                   jobPc, active_jobs, db_jobs, db_extractions, sc_in, sc_out, nzVars,
                   db_config, deleted, otherPc>>

\* AppConfigUpdateRequest: each part is left out or given.
ConfigRequests ==
    { [weights |-> Nothing, thresholds |-> Nothing, penalties |-> Some("configured"),
       bonuses |-> Nothing],
      [weights |-> Some(OneSidedWeights), thresholds |-> Some("configured"),
       penalties |-> Some("configured"), bonuses |-> Some("configured")] }

\* PUT /config/app: update_app_config stores the parts given.
UpdateAppConfig(request) ==
    /\ db_config' = [part \in DOMAIN db_config |->
                       IF request[part] # Nothing THEN request[part] ELSE db_config[part]]
    /\ api_out' = Response("config", 200, "none", FALSE, NoTables)
    /\ UNCHANGED <<envVars, reqVars, engineVars, poolVars, cancelVars, searchVars,
                   jobVars, sc_in, sc_out, nzVars, deleted, otherPc>>

\* The tracker of these runs: the incident is found and every candidate is a
\* change (the search may still return no candidate, and scoring then fails).
ServiceTrackers ==
    { t \in JobTrackers :
        /\ t[INC] = Script(0, "none", "Incident")
        /\ \A k \in Keys : t[k] = Script(0, "none", "Standard Change") }

InitService ==
    /\ InitJob
    /\ tracker \in ServiceTrackers
    /\ search_options = DefaultRequest

NextService ==
    \/ NextJob
    \/ DeleteJob(JOB)
    \/ \E j \in JobIds, w \in ScoreRequestWeights : RecalculateScore(j, w)
    \/ \E j \in JobIds : GetRanking(j)
    \/ \E request \in ConfigRequests : UpdateAppConfig(request)

SpecService == InitService /\ [][NextService]_vars

\* ------------------------------------------------------------ a second job
\* run_extraction_job(OTHER_JOB, ...) running beside the job JOB. Its
\* extraction is not followed call by call: do_extraction reports progress
\* and returns the tickets or raises.
OtherTickets ==
    { <<[issue_key |-> INC, ticket_type |-> "INCIDENT"]>>,
      <<[issue_key |-> INC, ticket_type |-> "INCIDENT"],
        [issue_key |-> 1, ticket_type |-> "CHANGE"]>> }
\* The (current, total) pairs of its progress callback.
OtherProgress == { <<1, 2>>, <<2, 2>> }

OtherJobFail(err) ==
    /\ db_jobs' = update_job_status(db_jobs, OTHER_JOB, "failed", Nothing, Nothing, Some(err))
    /\ active_jobs' = [active_jobs EXCEPT ![OTHER_JOB] =
                         [@ EXCEPT !.status = "failed", !.error = Some(err)]]
    /\ otherPc' = "sleeping"
    /\ UNCHANGED <<db_extractions, db_rankings>>

OtherJobStart ==
    /\ otherPc = "nojob"
    /\ db_jobs[OTHER_JOB].present
    /\ active_jobs' = [active_jobs EXCEPT ![OTHER_JOB] =
                         [present |-> TRUE, progress |-> 0, total |-> 0,
                          status |-> "connecting", error |-> Nothing]]
    /\ db_jobs' = update_job_status(db_jobs, OTHER_JOB, "running", Nothing, Nothing, Nothing)
    /\ otherPc' = "connecting"
    /\ UNCHANGED <<envVars, reqVars, engineVars, poolVars, cancelVars, searchVars,
                   jobPc, db_extractions, db_rankings, sc_in, sc_out, nzVars,
                   db_config, api_out, deleted>>

OtherJobConnect ==
    /\ otherPc = "connecting"
    /\ \E connected \in BOOLEAN :
         IF connected
         THEN /\ active_jobs' = [active_jobs EXCEPT ![OTHER_JOB] =
                                   [@ EXCEPT !.status = "extracting"]]
              /\ otherPc' = "extracting"
              /\ UNCHANGED <<db_jobs, db_extractions, db_rankings>>
         ELSE OtherJobFail("Failed to connect to Jira")
    /\ UNCHANGED <<envVars, reqVars, engineVars, poolVars, cancelVars, searchVars,
                   jobPc, sc_in, sc_out, nzVars, db_config, api_out, deleted>>

OtherJobProgress ==
    /\ otherPc = "extracting"
    /\ \E pair \in OtherProgress :
         /\ active_jobs[OTHER_JOB].progress < pair[1]
         /\ active_jobs' = [active_jobs EXCEPT ![OTHER_JOB] =
                              [@ EXCEPT !.progress = pair[1], !.total = pair[2],
                                        !.status = "extracting"]]
         /\ db_jobs' = update_job_status(db_jobs, OTHER_JOB, "running",
                                         Some((pair[1] * 100) \div pair[2]),
                                         Some(pair[2] - 1), Nothing)
    /\ UNCHANGED <<envVars, reqVars, engineVars, poolVars, cancelVars, searchVars,
                   jobPc, db_extractions, db_rankings, sc_in, sc_out, nzVars,
                   db_config, api_out, deleted, otherPc>>

OtherJobAfterExtraction ==
    /\ otherPc = "extracting"
    /\ \/ \E data \in OtherTickets :
            /\ db_extractions' = save_extraction(db_extractions, OTHER_JOB, data)
            /\ active_jobs' = [active_jobs EXCEPT ![OTHER_JOB] = [@ EXCEPT !.status = "scoring"]]
            /\ otherPc' = "scoring"
            /\ UNCHANGED <<db_jobs, db_rankings>>
       \/ OtherJobFail("Could not extract incident")
    /\ UNCHANGED <<envVars, reqVars, engineVars, poolVars, cancelVars, searchVars,
                   jobPc, sc_in, sc_out, nzVars, db_config, api_out, deleted>>

OtherJobScoring ==
    /\ otherPc = "scoring"
    /\ LET data == db_extractions[OTHER_JOB].tickets
           r == calculate_ranking(data, FALSE, Nothing, Nothing, Nothing)
       IN  IF r.raised
           THEN OtherJobFail(r.err)
           ELSE /\ db_rankings' = save_ranking(db_rankings, OTHER_JOB, DefaultWeightsModel, r.data)
                /\ db_jobs' = update_job_status(db_jobs, OTHER_JOB, "completed", Some(100),
                                  Some(Cardinality(TicketsOfType(data, "CHANGE"))), Nothing)
                /\ active_jobs' = [active_jobs EXCEPT ![OTHER_JOB] =
                                     [@ EXCEPT !.status = "completed"]]
                /\ otherPc' = "sleeping"
                /\ UNCHANGED db_extractions
    /\ UNCHANGED <<envVars, reqVars, engineVars, poolVars, cancelVars, searchVars,
                   jobPc, sc_in, sc_out, nzVars, db_config, api_out, deleted>>

OtherJobCleanup ==
    /\ otherPc = "sleeping"
    /\ active_jobs' = [active_jobs EXCEPT ![OTHER_JOB] = NoEntry]
    /\ otherPc' = "done"
    /\ UNCHANGED <<envVars, reqVars, engineVars, poolVars, cancelVars, searchVars,
                   jobPc, db_jobs, db_extractions, db_rankings, sc_in, sc_out, nzVars,
                   db_config, api_out, deleted>>

OtherJob ==
    \/ OtherJobStart
    \/ OtherJobConnect
    \/ OtherJobProgress
    \/ OtherJobAfterExtraction
    \/ OtherJobScoring
    \/ OtherJobCleanup

InitTwoJobs ==
    /\ InitJob
    /\ tracker \in ServiceTrackers
    /\ search_options = DefaultRequest

NextTwoJobs ==
    \/ NextJob
    \/ OtherJob

SpecTwoJobs == InitTwoJobs /\ [][NextTwoJobs]_vars

\* ------------------------------------------------------------------ claims
Finished == pc \in {"final", "returned"}
PoolRan == Finished /\ teccm_keys # <<>>
ResultKeys == { results[j].issue_key : j \in DOMAIN results }
FailsOnceWith429(k) == tracker[k].fails = 1 /\ tracker[k].kind = "429"

\* C1: a key whose first issue() call fails with a rate-limit error (429) and
\* whose second call would succeed has its ticket in the list returned by
\* extract_tickets_parallel, and when every submitted key is of that kind or
\* succeeds at once the errors counter is 0.
C1_RetryAfterRateLimit ==
    PoolRan =>
      /\ \A i \in Tasks : FailsOnceWith429(teccm_keys[i]) => teccm_keys[i] \in ResultKeys
      /\ (\A i \in Tasks : tracker[teccm_keys[i]].fails <= 1
                           /\ tracker[teccm_keys[i]].kind \in {"none", "429"})
            => errors = 0

\* C2: when extract_tickets_parallel returns, the errors counter equals the
\* number of submitted keys for which no ticket is in the returned list.
C2_ErrorsCountFailedKeys ==
    PoolRan => errors = Len(teccm_keys) - Len(results)

\* C3: when extract_tickets_parallel returns, done equals the number of
\* submitted keys; during the run done is the number of keys whose task has
\* ended (each key advances done exactly once).
C3_DoneEqualsN ==
    /\ PoolRan => done = Len(teccm_keys)
    /\ pc = "pool" =>
         done = Cardinality({ i \in Tasks : tstate[i] \in {"finished", "collected"} })

C3_Witness ==
    /\ pc = "returned"
    /\ Len(teccm_keys) = NumKeys
    /\ done = NumKeys
    /\ Len(results) = 1

\* C4: no key is submitted to the pool twice, and the list returned by
\* extract_tickets_parallel never holds two tickets for the same key.
C4_AtMostOncePerKey ==
    /\ \A i, j \in Tasks : i # j => teccm_keys[i] # teccm_keys[j]
    /\ \A i, j \in DOMAIN results : i # j => results[i].issue_key # results[j].issue_key

C4_Witness ==
    /\ pc = "returned"
    /\ Len(results) = NumKeys

\* C5: the number of candidate fetches in flight never exceeds
\* min(num_threads, len(teccm_keys)); the other keys wait in the queue.
C5_BoundedInFlight ==
    pc = "pool" => Cardinality(InFlight) <= Min(num_threads, Len(teccm_keys))

C5_Witness ==
    /\ pc = "pool"
    /\ num_threads < Len(teccm_keys)
    /\ Cardinality(InFlight) = num_threads
    /\ \E i \in Tasks : tstate[i] = "queued"

\* C6: every progress callback carries total = 1 + len(teccm_keys); the done
\* values are non-decreasing, start at 1, never exceed total, and the last one
\* of a completed call is total.
C6_ProgressSequence ==
    /\ \A i \in DOMAIN cbLog :
         /\ cbLog[i][2] = 1 + Len(teccm_keys)
         /\ cbLog[i][1] <= cbLog[i][2]
    /\ \A i, j \in DOMAIN cbLog : i < j => cbLog[i][1] <= cbLog[j][1]
    /\ cbLog # <<>> => cbLog[1][1] = 1
    /\ pc = "returned" => cbLog[Len(cbLog)][1] = 1 + Len(teccm_keys)

\* Both workers ended before the first future was collected: the callback
\* jumps from 1 to 1 + NumKeys.
C6_Witness ==
    /\ pc = "returned"
    /\ Len(teccm_keys) = NumKeys
    /\ Len(cbLog) = NumKeys + 2
    /\ cbLog[2][1] = 1 + NumKeys

\* C7: once cancellation is signalled, no key that has not yet started is
\* fetched.
C7_CancelStopsScheduling ==
    [][ (cancel_requested /\ pc = "pool" /\ pc' = "pool") =>
          \A i \in Tasks : tstate[i] = "queued" => tstate'[i] = "queued" ]_vars

\* The searches the options enable, as a set and in the order of the code.
Enabled(opts) ==
    {"window"} \cup (IF opts.include_active THEN {"active"} ELSE {})
               \cup (IF opts.include_no_end THEN {"no_end"} ELSE {})
EnabledInOrder(opts) ==
    <<"window">> \o (IF opts.include_active THEN <<"active">> ELSE <<>>)
                 \o (IF opts.include_no_end THEN <<"no_end">> ELSE <<>>)
SearchRan == s_out.issued # <<>>

\* C8: when no enabled query errors, search_teccm_in_window returns the union
\* of the key sets of the enabled queries, and the queries sent are exactly the
\* enabled ones in the order window, active-at, open-ended.
C8_UnionOfEnabledQueries ==
    (SearchRan /\ \A q \in Enabled(s_opts) : s_resp[q].ok) =>
      /\ s_out.keys = UNION { s_resp[q].keys : q \in Enabled(s_opts) }
      /\ s_out.issued = EnabledInOrder(s_opts)

C8_Witness ==
    /\ SearchRan
    /\ s_opts.include_active /\ ~s_opts.include_no_end
    /\ \A q \in Queries : s_resp[q].ok
    /\ s_resp["window"].keys \cap s_resp["active"].keys # {}
    /\ s_resp["no_end"].keys \ (s_resp["window"].keys \cup s_resp["active"].keys) # {}
    /\ s_out.keys = s_resp["window"].keys \cup s_resp["active"].keys

\* C9: if exactly one enabled query raises, the result is the union of the key
\* sets of the other enabled queries.
C9_FailedQueryContributesEmpty ==
    SearchRan =>
      \A q \in Enabled(s_opts) :
        (~s_resp[q].ok /\ \A o \in Enabled(s_opts) \ {q} : s_resp[o].ok) =>
          s_out.keys = UNION { s_resp[o].keys : o \in Enabled(s_opts) \ {q} }

\* C10: every run of run_extraction_job ends, and it ends with the job row in
\* exactly one terminal status: COMPLETED with a ranking saved and no error, or
\* FAILED with an error reason recorded and no ranking; once the row holds a
\* terminal status it is never changed again (never set back to RUNNING).
\* The job row is the one create_job inserted; it is not deleted in these runs.
JobEnded == jobPc \in {"sleeping", "done"}
Terminal == {"completed", "failed"}
C10_JobEndsInOneTerminalStatus ==
    /\ <>(jobPc = "done")
    /\ []((JobEnded /\ db_jobs[JOB].present) =>
           /\ db_jobs[JOB].status \in Terminal
           /\ db_jobs[JOB].status = "completed" =>
                (Len(db_rankings[JOB]) >= 1 /\ db_jobs[JOB].error = Nothing)
           /\ db_jobs[JOB].status = "failed" =>
                (db_jobs[JOB].error # Nothing /\ db_rankings[JOB] = <<>>))
    /\ [][db_jobs[JOB].status \in Terminal => db_jobs'[JOB].status = db_jobs[JOB].status]_vars

\* A run that failed in scoring after its extraction was saved: every
\* candidate was fetched by the pool and none of them is a CHANGE.
C10_Witness ==
    /\ jobPc = "done"
    /\ db_jobs[JOB].status = "failed"
    /\ db_extractions[JOB].present
    /\ db_jobs[JOB].error = Some("No TECCMs found in extraction data")
    /\ Len(teccm_keys) = NumKeys

\* The candidates of the run are all changes in the tracker, so a candidate is
\* missing from the tickets only when its fetch failed.
AllCandidatesAreChanges ==
    \A i \in Tasks : tracker[teccm_keys[i]].issuetype = "Standard Change"

\* C11: when the incident was fetched and the candidate key set is not empty,
\* the job ends COMPLETED with one ranking over exactly the candidates that
\* were fetched, whichever subset of the candidate fetches failed.
C11_CandidateFailuresNeverFailRun ==
    (JobEnded /\ pc = "returned" /\ teccm_keys # <<>> /\ AllCandidatesAreChanges) =>
      /\ db_jobs[JOB].status = "completed"
      /\ RankingsOf(db_rankings[JOB]) = <<ResultKeys>>

\* The one issue() call for the incident was made and it failed.
IncidentFetchFailed == issueCalls[INC] >= 1 /\ tracker[INC].fails >= 1

\* C12: when the incident ticket cannot be fetched the job ends FAILED, and in
\* that run search_teccm_in_window is never called, no candidate key is asked
\* of the tracker, and neither an extraction nor a ranking is saved.
C12_IncidentFetchFailureFailsJob ==
    /\ [](IncidentFetchFailed =>
            /\ searchCalls = 0
            /\ \A k \in Keys : issueCalls[k] = 0
            /\ ~db_extractions[JOB].present
            /\ db_rankings[JOB] = <<>>)
    /\ []((IncidentFetchFailed /\ JobEnded) => db_jobs[JOB].status = "failed")
    /\ (IncidentFetchFailed ~> jobPc = "done")

C12_Witness ==
    /\ jobPc = "done"
    /\ IncidentFetchFailed
    /\ db_jobs[JOB].status = "failed"
    /\ db_jobs[JOB].error = Some("Could not extract incident")

\* Keys of the fetched tickets whose kind is one of tys.
FetchedKeysOfKind(tys) ==
    { tickets[i].issue_key : i \in { j \in DOMAIN tickets : tickets[j].ticket_type \in tys } }

\* C13: the ranking a completed job saved holds the fetched CHANGE tickets
\* only when the request's include_external_maintenance is false, and every
\* fetched CHANGE or EXTERNAL MAINTENANCE ticket when it is true (min_score is
\* 0 in the job, so no ticket is left out for its score).
C13_RankedKindsFollowFlag ==
    (JobEnded /\ db_jobs[JOB].status = "completed") =>
      RankingsOf(db_rankings[JOB]) =
        << IF search_options.include_external_maintenance
           THEN FetchedKeysOfKind({"CHANGE", "EXTERNAL MAINTENANCE"})
           ELSE FetchedKeysOfKind({"CHANGE"}) >>

\* The request carries a window string parse_window rejects.
WindowRejected ==
    \/ parse_window(search_options.window_before).raised
    \/ parse_window(search_options.window_after).raised

\* C14: for a request whose window_before or window_after is not a valid
\* window string no job row is ever created, connect_jira is never called and
\* no tracker call (issue, search) is made.
C14_BadWindowRejectedBeforeJob ==
    WindowRejected =>
      /\ ~db_jobs[JOB].present
      /\ connectCalls = 0
      /\ searchCalls = 0
      /\ \A k \in Keys \cup {INC} : issueCalls[k] = 0

RankKeys(rows) == [i \in DOMAIN rows |-> <<rows[i].rank, rows[i].issue_key>>]
RankingReturned == sc_out # NoCall

\* C15: calculate_ranking returns the same sequence of (rank, key) for any two
\* orders of the same list of changes, and its ranks are 1..n.
C15_RankingIndependentOfInputOrder ==
    RankingReturned =>
      /\ RankKeys(sc_out.base) = RankKeys(sc_out.reordered)
      /\ \A i \in DOMAIN sc_out.base : sc_out.base[i].rank = i

\* C16: multiplying the four weights by one positive constant changes neither
\* the sequence of keys nor any final score of the ranking.
C16_WeightScaleInvariance ==
    RankingReturned => sc_out.scaled = sc_out.base

\* The impact time of the incident: firstImpactTime, else createdAt.
ImpactTime ==
    IF sc_in.inc_first_impact # Nothing THEN sc_in.inc_first_impact[1]
    ELSE sc_in.inc_created[1]
TimeScoreReturned == sc_out # NoCall
Exists(time_str) == time_str # Nothing /\ time_str # Garbled
InsideLiveInterval ==
    \E i \in DOMAIN sc_in.teccm_live_intervals :
       /\ sc_in.teccm_live_intervals[i].start <= ImpactTime
       /\ ImpactTime <= sc_in.teccm_live_intervals[i].end

\* C17: calculate_time_score returns 100 when the impact time lies inside a
\* live interval of the change, and 0 when the change has no live interval
\* and the impact time is earlier than its planned start.
C17_TimeScoreInsideAndBefore ==
    TimeScoreReturned =>
      /\ InsideLiveInterval => sc_out.score = 1000
      /\ (/\ sc_in.teccm_live_intervals = <<>>
          /\ Exists(sc_in.teccm_planned_start)
          /\ ImpactTime < sc_in.teccm_planned_start[1]) => sc_out.score = 0

\* The first impact time is inside the live interval, the creation time is not.
C17_Witness ==
    /\ TimeScoreReturned
    /\ sc_in.inc_first_impact = Some(3600)
    /\ sc_in.inc_created = Some(0)
    /\ sc_in.teccm_live_intervals = <<[start |-> 3600, end |-> 3600 + time_decay_hours * 3600]>>
    /\ sc_out.score = 1000

\* C18: for a change with no live interval whose planned end exists and is
\* earlier than the impact time, with or without a planned start, the time
\* score is 80 * (1 - sqrt(d / D)) clamped at 0 (to the one decimal the scorer
\* keeps), d being the time from the planned end to the impact and D the decay
\* time; it is positive whenever 0 < d < D.
C18_DecayFromPlannedEnd ==
    (/\ TimeScoreReturned
     /\ sc_in.teccm_live_intervals = <<>>
     /\ Exists(sc_in.teccm_planned_end)
     /\ sc_in.teccm_planned_end[1] < ImpactTime) =>
       LET d == ImpactTime - sc_in.teccm_planned_end[1]
           D == time_decay_hours * 3600
       IN  /\ sc_out.score = IF d >= D THEN 0 ELSE decay_score(80, d, time_decay_hours)
           /\ d < D => sc_out.score > 0

TicketReturned == nz_out # NoCall

\* C19: every live interval the normalizer produces has start <= end, also
\* when the comment gives the two times in reverse order, or gives no end
\* date and an end time earlier than the start time.
C19_LiveIntervalsOrdered ==
    TicketReturned =>
      \A i \in DOMAIN nz_out.live_intervals :
         StampLeq(nz_out.live_intervals[i].start, nz_out.live_intervals[i].end)

Parsed(time_str) == time_str # Nothing /\ strptime_ok(time_str[1].head)
ReversedPlannedPair ==
    /\ Parsed(nz_in.start_datetime) /\ Parsed(nz_in.end_datetime)
    /\ StampLess(nz_in.end_datetime[1].head, nz_in.start_datetime[1].head)

\* C20: when the normalized ticket has both a planned start and a planned end,
\* the start is not later than the end; a pair the tracker gives in reverse
\* order is dropped and a warning is recorded.
C20_PlannedWindowOrdered ==
    TicketReturned =>
      /\ (Parsed(nz_out.planned_start) /\ Parsed(nz_out.planned_end)) =>
            StampLeq(nz_out.planned_start[1].head, nz_out.planned_end[1].head)
      /\ ReversedPlannedPair =>
            /\ nz_out.planned_start = Nothing /\ nz_out.planned_end = Nothing
            /\ \E i \in DOMAIN nz_out.warnings : nz_out.warnings[i] # NoLiveIntervalsWarning

\* C21: two calls of extract_ticket on the same raw fields and comments, at
\* different times, return the same ticket, field for field.
C21_NormalizerDeterministic ==
    nz_again # NoCall => nz_again = nz_out

\* C22: a rescoring (recalculate_score, with any weights, any number of times)
\* leaves every stored extraction and every job row as it was and calls the
\* tracker not once; it leaves the rankings as they were or appends one row to
\* the rankings of its job, and the rankings of other jobs are not touched.
AppendsOneRow(before, after) ==
    /\ Len(after) = Len(before) + 1
    /\ SubSeq(after, 1, Len(before)) = before
C22_RescoringOnlyAppendsRanking ==
    [][\A j \in JobIds, w \in ScoreRequestWeights :
         RecalculateScore(j, w) =>
           /\ db_extractions' = db_extractions
           /\ db_jobs' = db_jobs
           /\ issueCalls' = issueCalls
           /\ searchCalls' = searchCalls
           /\ connectCalls' = connectCalls
           /\ \A k \in JobIds \ {j} : db_rankings'[k] = db_rankings[k]
           /\ \/ db_rankings'[j] = db_rankings[j]
              \/ AppendsOneRow(db_rankings[j], db_rankings'[j])]_vars

\* The job was rescored twice, with different weights, and saved its own ranking.
C22_Witness ==
    /\ api_out.op = "score" /\ api_out.status = 200
    /\ Len(db_rankings[JOB]) = 3
    /\ db_rankings[JOB][1].weights = DefaultWeightsModel
    /\ db_rankings[JOB][2].weights = OneSidedWeights
    /\ db_rankings[JOB][3].weights = DefaultWeightsModel
    /\ db_extractions[JOB].present
    /\ db_jobs[JOB].status = "completed"

\* C23: no step of the job JOB (start, connection, a progress callback, a
\* status change, a failure, the cleanup) changes the in-memory entry, the
\* row, the extraction or the rankings of the job OTHER_JOB running beside it.
C23_JobsDoNotInterfere ==
    [][NextJob =>
         /\ active_jobs'[OTHER_JOB] = active_jobs[OTHER_JOB]
         /\ db_jobs'[OTHER_JOB] = db_jobs[OTHER_JOB]
         /\ db_extractions'[OTHER_JOB] = db_extractions[OTHER_JOB]
         /\ db_rankings'[OTHER_JOB] = db_rankings[OTHER_JOB]]_vars

\* The job JOB ran to its end while the other job was extracting.
C23_Witness ==
    /\ jobPc = "done"
    /\ db_jobs[JOB].status = "completed"
    /\ otherPc = "extracting"
    /\ active_jobs[OTHER_JOB].status = "extracting"
    /\ active_jobs[OTHER_JOB].progress = 1
    /\ db_jobs[OTHER_JOB].status = "running"
    /\ db_jobs[OTHER_JOB].progress = 50

\* Scenario 1: the sub-scores are 100, 100, 60 and 0 and the planned start is
\* 20 minutes (0.33 h) before the impact.
Scenario1 ==
    /\ sc_in = [time |-> 1000, service |-> 1000, infra |-> 600, org |-> 0,
                inc_time |-> 44400, teccm_start |-> 43200]
    /\ sc_out # NoCall

\* C24: in scenario 1 the bonus applied is proximity_1h (x1.3) and the final
\* score is 100.1.
C24_Scenario1Proximity1h ==
    Scenario1 => (sc_out.bonus = "proximity_1h" /\ sc_out.final_score = 1001)

\* C24, amended: in scenario 1 the bonus applied is proximity_exact (x1.5) and
\* the final score is 115.5.
C24_Scenario1ProximityExact ==
    Scenario1 => (sc_out.bonus = "proximity_exact" /\ sc_out.final_score = 1155)

C24_Witness ==
    /\ Scenario1
    /\ sc_out.final_score = 1155

\* C25: the callback of extract_tickets_parallel is invoked once per submitted
\* key (N invocations for N keys), and the values of done it is handed are
\* every value 1..N. (The caller's callback gets 1 + done; its first call is
\* the one for the incident and its last the closing one.)
C25_EveryDoneValueReported ==
    PoolRan =>
      LET n == Len(teccm_keys)
      IN  /\ Len(cbLog) = 1 + n + (IF pc = "returned" THEN 1 ELSE 0)
          /\ { cbLog[i][1] - 1 : i \in 2..(1 + n) } = 1..n

\* C26: a rescoring with weights the model class accepts (each in [0, 1],
\* zero components and all zero included) never ends in the division by the
\* weights' sum raising.
C26_AcceptedWeightsNeverRaise ==
    api_out.op = "score" => api_out.detail # "float division by zero"

\* C27: a rescoring that calculates a ranking (recalculate_score, or
\* get_ranking when no ranking is stored) applies the thresholds, penalties
\* and bonuses stored by update_app_config.
StoredTables ==
    [thresholds |-> TableOr(db_config.thresholds), penalties |-> TableOr(db_config.penalties),
     bonuses |-> TableOr(db_config.bonuses)]
C27_RescoringAppliesStoredConfig ==
    (api_out.computed /\ api_out.status = 200) => api_out.applied = StoredTables

\* C28: once delete_job returned success for a job id, no job row, no
\* extraction and no ranking is stored under that id.
C28_DeletedJobLeavesNothing ==
    \A j \in deleted :
       /\ ~db_jobs[j].present
       /\ ~db_extractions[j].present
       /\ db_rankings[j] = <<>>

\* C29: the phase of the in-memory entry of a job only moves forward along
\* connecting, extracting, scoring, completed; "failed" is entered from the
\* first three only, and "completed" and "failed" are never left.
PhaseRank(status) ==
    CASE status = "connecting" -> 1
      [] status = "extracting" -> 2
      [] status = "scoring" -> 3
      [] status = "completed" -> 4
      [] status = "failed" -> 4
PhaseMovesForward(before, after) ==
    \/ after = before
    \/ before \notin {"completed", "failed"} /\ PhaseRank(after) > PhaseRank(before)
C29_PhaseOnlyMovesForward ==
    [][(active_jobs[JOB].present /\ active_jobs'[JOB].present) =>
         PhaseMovesForward(active_jobs[JOB].status, active_jobs'[JOB].status)]_vars

\* The job failed while scoring, after progress callbacks during extraction.
C29_Witness ==
    /\ active_jobs[JOB].present
    /\ active_jobs[JOB].status = "failed"
    /\ active_jobs[JOB].error = Some("No TECCMs found in extraction data")
    /\ active_jobs[JOB].progress >= 1
    /\ cbLog # <<>>

\* C30: a job row with status COMPLETED has a stored extraction and at least
\* one stored ranking; a job row with rankings has a stored extraction (the
\* extraction is saved first); a run that failed while scoring has, while its
\* row exists, status FAILED, its extraction stored and no ranking.
ScoringErrors == { Some("No incidents found in extraction data"),
                   Some("No TECCMs found in extraction data") }
C30_CompletedHasExtractionAndRanking ==
    /\ \A j \in JobIds :
         /\ (db_jobs[j].present /\ db_jobs[j].status = "completed") =>
              (db_extractions[j].present /\ Len(db_rankings[j]) >= 1)
         /\ (db_jobs[j].present /\ db_rankings[j] # <<>>) => db_extractions[j].present
    /\ (db_jobs[JOB].present /\ db_jobs[JOB].error \in ScoringErrors) =>
         /\ db_jobs[JOB].status = "failed"
         /\ db_extractions[JOB].present
         /\ db_rankings[JOB] = <<>>

\* The run failed while scoring and a rescoring was then asked for.
C30_Witness ==
    /\ db_jobs[JOB].present
    /\ db_jobs[JOB].error = Some("No TECCMs found in extraction data")
    /\ db_jobs[JOB].status = "failed"
    /\ db_extractions[JOB].present
    /\ api_out.op = "score" /\ api_out.status = 500

====
